---- MODULE Spec2Model ----
(***************************************************************************)
(* FERRET: filename grouping (SmartGrouper), exact-duplicate detection     *)
(* (SmartDuplicateDetector) and result aggregation (DuplicateResults), as  *)
(* run by FerretPlatform::analyze_directory.                               *)
(*                                                                         *)
(* A string is a sequence of one-character strings; a path is the sequence *)
(* of characters of its file name (all files of one directory).            *)
(***************************************************************************)
EXTENDS Integers, Sequences, FiniteSets, TLC

\* ------------------------------------------------------------------ bounds

\* Longest enumerated file list handed to group_files.
MaxFiles == 4
\* Most changes the outside world makes to the directory during one run.
MaxEnv == 1

\* The longest string smith_waterman_rolling is called with, in characters.
MaxStrLen == 3

\* The number of different shingles shingle_similarity is called with.
MaxShingles == 3

\* The number of add_locked_file calls.
MaxLocked == 2

\* The longest list of paths calculate_similarity is called with by a caller
\* other than the scanner.
MaxCallFiles == 3

\* The most words of a content shingle_file is called with on its own.
MaxWords == 4

\* The most files under a root that is analysed on request.
MaxRootFiles == 2

\* --------------------------------------------------------------- strings

Digits == {"0", "1", "2", "3", "4", "5", "6", "7", "8", "9"}

Whitespace == {" "}

\* char::to_lowercase on the ASCII letters.
LowerOf(c) ==
    CASE c = "A" -> "a" [] c = "B" -> "b" [] c = "C" -> "c" [] c = "D" -> "d"
      [] c = "E" -> "e" [] c = "F" -> "f" [] c = "G" -> "g" [] c = "H" -> "h"
      [] c = "I" -> "i" [] c = "J" -> "j" [] c = "K" -> "k" [] c = "L" -> "l"
      [] c = "M" -> "m" [] c = "N" -> "n" [] c = "O" -> "o" [] c = "P" -> "p"
      [] c = "Q" -> "q" [] c = "R" -> "r" [] c = "S" -> "s" [] c = "T" -> "t"
      [] c = "U" -> "u" [] c = "V" -> "v" [] c = "W" -> "w" [] c = "X" -> "x"
      [] c = "Y" -> "y" [] c = "Z" -> "z" [] OTHER -> c

\* str::to_lowercase
to_lowercase(s) == [i \in 1..Len(s) |-> LowerOf(s[i])]

\* str::replace(from, to) for a one-character pattern.
replace_char(s, from, to) == [i \in 1..Len(s) |-> IF s[i] = from THEN to ELSE s[i]]

\* The suffix of s that starts at position i (1-based); empty when i > Len(s).
SuffixFrom(s, i) == SubSeq(s, i, Len(s))

RECURSIVE TrimStart(_)
TrimStart(s) ==
    IF s # <<>> /\ Head(s) \in Whitespace THEN TrimStart(Tail(s)) ELSE s

RECURSIVE TrimEnd(_)
TrimEnd(s) ==
    IF s # <<>> /\ s[Len(s)] \in Whitespace
    THEN TrimEnd(SubSeq(s, 1, Len(s) - 1))
    ELSE s

\* str::trim
trim(s) == TrimEnd(TrimStart(s))

\* The largest index of character c in s, 0 when there is none.
LastIndexOf(s, c) ==
    LET hits == {i \in 1..Len(s) : s[i] = c}
    IN  IF hits = {} THEN 0 ELSE CHOOSE i \in hits : \A j \in hits : j <= i

\* Path::file_stem: the file name without its final extension; the whole name
\* when it holds no '.', or when its only '.' is the first character.
file_stem(path) ==
    LET dot == LastIndexOf(path, ".")
    IN  IF dot <= 1 THEN path ELSE SubSeq(path, 1, dot - 1)

\* ------------------------------------------------- normalize_filename

AllDigits(s) == s # <<>> /\ \A i \in 1..Len(s) : s[i] \in Digits

\* One alternative of (v\d+|copy|backup|final|draft|\d+) matching all of s.
IsVariantToken(s) ==
    \/ (Len(s) >= 2 /\ s[1] = "v" /\ AllDigits(Tail(s)))
    \/ s = <<"c", "o", "p", "y">>
    \/ s = <<"b", "a", "c", "k", "u", "p">>
    \/ s = <<"f", "i", "n", "a", "l">>
    \/ s = <<"d", "r", "a", "f", "t">>
    \/ AllDigits(s)

\* \s*(v\d+|copy|backup|final|draft|\d+)$ matching exactly the suffix from i.
SuffixMatches(s, i) == IsVariantToken(TrimStart(SuffixFrom(s, i)))

\* Regex::replace(s, ""): the leftmost match is removed; the pattern is anchored
\* at the end, so the match runs from its start to the end of the string.
strip_variant_suffix(s) ==
    LET starts == {i \in 1..Len(s) : SuffixMatches(s, i)}
    IN  IF starts = {} THEN s
        ELSE SubSeq(s, 1, (CHOOSE i \in starts : \A j \in starts : i <= j) - 1)

\* A bug of normalize_filename: the variant suffix is kept.
normalize_filename_keeps_suffix(path) ==
    LET stem == file_stem(path)
        normalized == replace_char(replace_char(to_lowercase(stem), "_", " "), "-", " ")
        cleaned == trim(normalized)
    IN  IF cleaned = <<>> THEN to_lowercase(stem) ELSE cleaned

\* SmartGrouper::normalize_filename
normalize_filename(path) ==
    LET stem == file_stem(path)
        normalized == replace_char(replace_char(to_lowercase(stem), "_", " "), "-", " ")
        cleaned == trim(strip_variant_suffix(normalized))
    IN  IF cleaned = <<>> THEN to_lowercase(stem) ELSE cleaned

\* ------------------------------------------- SkimMatcherV2::fuzzy_match

\* SkimScoreConfig::default(), the configuration SmartGrouper::new builds its
\* matcher with.
score_match == 16
gap_start == -3
gap_extension == -1
bonus_first_char_multiplier == 2
bonus_head == score_match \div 2
bonus_break == score_match \div 2 + gap_extension
bonus_consecutive == -(gap_start + gap_extension)

\* Minimum fuzzy score for grouping (SmartGrouper::new).
threshold == 60

HardSeps == {" ", "/", "\\", "|", "(", ")", "[", "]", "{", "}"}
SoftSeps == {"_", "-", ".", ",", ":", ";", "!", "#", "+", "=", "@", "~"}

Max2(a, b) == IF a >= b THEN a ELSE b

\* The bonus of matching the choice character at position j (1-based): a word
\* head (start of the string or after a hard separator), a word break (after a
\* soft separator), nothing inside a word. The names compared are lower case,
\* so the camelCase bonus never applies.
in_place_bonus(choice, j) ==
    IF j = 1 \/ choice[j - 1] \in HardSeps THEN bonus_head
    ELSE IF choice[j - 1] \in SoftSeps THEN bonus_break
    ELSE 0

\* A cell of the score matrix: m is the best score of an alignment that matches
\* the two characters of this cell, p the best score of one that skips the
\* choice character; m_ok / p_ok say whether such an alignment exists.
NoCell == [m_ok |-> FALSE, m |-> 0, p_ok |-> FALSE, p |-> 0, bonus |-> 0]

\* Row 0: no pattern character matched yet, any number of choice characters
\* skipped at no cost.
FirstRow(n) == [j \in 1..(n + 1) |-> [NoCell EXCEPT !.p_ok = TRUE]]

\* The cell of pattern character i and choice character j, from the cell to its
\* left (last) and the cell above-left (prev).
ScoreCell(choice, pattern, i, j, last, prev) ==
    LET skip_from_m == last.m + gap_start
        skip_from_p == last.p + gap_extension
        p_ok == last.m_ok \/ last.p_ok
        p == IF last.m_ok /\ (~last.p_ok \/ skip_from_m >= skip_from_p)
             THEN skip_from_m ELSE skip_from_p
        here == IF i = 1 THEN in_place_bonus(choice, j) * bonus_first_char_multiplier
                ELSE in_place_bonus(choice, j)
        consecutive == Max2(prev.bonus, Max2(here, bonus_consecutive))
        via_match == prev.m + consecutive
        via_skip == prev.p + here
        equal == pattern[i] = choice[j]
        m_ok == equal /\ (prev.m_ok \/ prev.p_ok)
        by_match == prev.m_ok /\ (~prev.p_ok \/ via_match >= via_skip)
    IN  [m_ok |-> m_ok,
         m |-> IF ~m_ok THEN 0
               ELSE (IF by_match THEN via_match ELSE via_skip) + score_match,
         p_ok |-> p_ok,
         p |-> IF p_ok THEN p ELSE 0,
         bonus |-> IF ~m_ok THEN 0 ELSE IF by_match THEN consecutive ELSE here]

\* Row i of the matrix from row i - 1, built left to right; acc holds the
\* columns 0 .. j - 1 already built.
RECURSIVE BuildRow(_, _, _, _, _)
BuildRow(choice, pattern, i, above, acc) ==
    LET j == Len(acc)
    IN  IF j > Len(choice) THEN acc
        ELSE BuildRow(choice, pattern, i, above,
                      Append(acc, ScoreCell(choice, pattern, i, j, acc[j], above[j])))

\* No alignment reaches any cell of the row.
Dead(row) == \A j \in 1..Len(row) : ~row[j].m_ok /\ ~row[j].p_ok

\* The row of the last pattern character, from row i - 1; a dead row stays dead.
RECURSIVE LastRow(_, _, _, _)
LastRow(choice, pattern, i, row) ==
    IF Dead(row) \/ i > Len(pattern) THEN row
    ELSE LastRow(choice, pattern, i + 1, BuildRow(choice, pattern, i, row, <<NoCell>>))

\* pattern is a subsequence of choice.
RECURSIVE IsSubsequence(_, _)
IsSubsequence(pattern, choice) ==
    IF pattern = <<>> THEN TRUE
    ELSE IF choice = <<>> THEN FALSE
    ELSE IF Head(pattern) = Head(choice) THEN IsSubsequence(Tail(pattern), Tail(choice))
    ELSE IsSubsequence(pattern, Tail(choice))

\* An Option<i64>.
None == [some |-> FALSE, score |-> 0]
Some(n) == [some |-> TRUE, score |-> n]

\* SkimMatcherV2::fuzzy_match(choice, pattern): None unless every character of
\* pattern occurs in choice in order; else the best alignment's score.
fuzzy_match(choice, pattern) ==
    IF pattern = <<>> THEN Some(0)
    ELSE IF ~IsSubsequence(pattern, choice) THEN None
    ELSE LET row == LastRow(choice, pattern, 1, FirstRow(Len(choice)))
             ends == {j \in 1..Len(row) : row[j].m_ok}
         IN  IF ends = {} THEN None
             ELSE Some(row[CHOOSE j \in ends : \A k \in ends : row[k].m <= row[j].m].m)

\* ------------------------------------------------------- the directories

a_txt == <<"a", ".", "t", "x", "t">>
b_txt == <<"b", ".", "t", "x", "t">>
c_txt == <<"c", ".", "t", "x", "t">>
a_md == <<"a", ".", "m", "d">>
test1_txt == <<"t", "e", "s", "t", "1", ".", "t", "x", "t">>
test2_txt == <<"t", "e", "s", "t", "2", ".", "t", "x", "t">>
test_copy_txt == <<"T", "e", "s", "t", "-", "c", "o", "p", "y", ".", "t", "x", "t">>
different_txt == <<"d", "i", "f", "f", "e", "r", "e", "n", "t", ".", "t", "x", "t">>
report_v1_docx == <<"r", "e", "p", "o", "r", "t", "_", "v", "1", ".", "d", "o", "c", "x">>
report_v2_docx == <<"r", "e", "p", "o", "r", "t", "_", "v", "2", ".", "d", "o", "c", "x">>
report_final_docx ==
    <<"r", "e", "p", "o", "r", "t", "_", "f", "i", "n", "a", "l", ".", "d", "o", "c", "x">>
report_draft_docx ==
    <<"R", "e", "p", "o", "r", "t", " ", "D", "r", "a", "f", "t", ".", "d", "o", "c", "x">>
alpha_txt == <<"a", "l", "p", "h", "a", ".", "t", "x", "t">>
gamma_txt == <<"g", "a", "m", "m", "a", ".", "t", "x", "t">>
alpha_gamma_txt == <<"a", "l", "p", "h", "a", "_", "g", "a", "m", "m", "a", ".", "t", "x", "t">>
alpha_gamma_2_txt ==
    <<"a", "l", "p", "h", "a", "_", "g", "a", "m", "m", "a", "_", "2", ".", "t", "x", "t">>

\* File contents: the two of the scenarios ("Hello, world!", "Different content").
Hello == "Hello, world!"
Different == "Different content"
Contents == {Hello, Different}

\* The length in bytes of a content.
SizeOf(content) == IF content = Hello THEN 13 ELSE 17

\* The directories analysed: the files of each, with their content at the start.
Dirs ==
    { (a_txt :> Hello) @@ (b_txt :> Hello) @@ (c_txt :> Different) @@ (a_md :> Hello),
      (test1_txt :> Hello) @@ (test2_txt :> Hello) @@ (test_copy_txt :> Different)
          @@ (different_txt :> Different),
      (report_v1_docx :> Hello) @@ (report_v2_docx :> Hello)
          @@ (report_final_docx :> Different) @@ (report_draft_docx :> Different),
      (alpha_txt :> Hello) @@ (gamma_txt :> Different) @@ (alpha_gamma_txt :> Hello)
          @@ (alpha_gamma_2_txt :> Different) }

Range(s) == {s[i] : i \in 1..Len(s)}

\* Every list of at most n distinct members of set S: an enumeration order of
\* some of its files.
ListsOf(S, n) ==
    {s \in UNION {[1..k -> S] : k \in 0..n} : \A i, j \in 1..Len(s) : s[i] = s[j] => i = j}

\* Every ordering of the members of the finite set S.
Orderings(S) == {s \in [1..Cardinality(S) -> S] : Range(s) = S}

\* ----------------------------------------------------------------- state

VARIABLES
    files,        \* the enumerated paths handed to group_files
    disk,         \* path -> [state, content]: the directory as it is now
    env_count,    \* changes the outside world has made so far
    pc,           \* where analyze_directory is
    idx,          \* group_files: index of the next path of files
    groups,       \* group_files: the HashMap canonical name -> FileGroup
    order,        \* the keys of groups in the order they were first inserted
    file_groups,  \* the Vec<FileGroup> group_files returned
    gi,           \* detect_duplicates: index of the next group of file_groups
    pending,      \* duplicate sets found in group gi, not yet aggregated
    results,      \* the DuplicateResults
    hashed,       \* path -> the digest hash_file returned for it in this run
    seen,         \* per stored DuplicateGroup, the disk as add_duplicate_group saw it
    run,          \* which run of group_files this is (1 or 2)
    first_groups  \* the groups the first run returned

\* The legacy scanner (file_scanner): FileScanner with its FileSimilarity.
VARIABLES
    root_directory,     \* path -> entry: what WalkDir finds under the root
    scan_pc,            \* where the scanner is
    duplicate_files,    \* FileScanner.duplicate_files
    duplicate_groups,   \* FileScanner.duplicate_groups
    unique_files,       \* FileScanner.unique_files
    sim_files,          \* calculate_similarity: its argument files
    sim_duplicates,     \* calculate_similarity: its argument duplicate_files
    file_contents,      \* calculate_similarity: what load_files returned
    next_pair,          \* per parallel worker i, the index j it compares next
    similarity_scores,  \* FileSimilarity.similarity_scores: key -> score
    inserts,            \* key -> how many times scores.insert was called with it
    tested,             \* pairs <<i, j>> whose Jaccard score was computed
    aligned,            \* pairs <<i, j>> smith_waterman_rolling ran on
    entered             \* the public method the scanner was last entered through

\* One call of a pure function of the similarity engine.
VARIABLES
    call,               \* the function called
    arg1,               \* its first argument
    arg2,               \* its second argument
    out                 \* what it returned, once it has

\* RetryManager.
VARIABLES
    locked_files,       \* RetryManager.locked_files
    retry_results,      \* what the last retry_locked_files call returned
    added,              \* add_locked_file calls so far
    invocations,        \* per entry, how often the processor was called on it
    reports,            \* per entry, how many ProcessResults were returned for it
    cycles,             \* retry_locked_files calls on a queue that was not empty,
                        \* since the last add_locked_file
    outcomes            \* per queued file of the last call, what became of it

\* One analysis request: an entry point, FileDiscovery and FdIntegration.
VARIABLES
    entry_point,        \* who asks for the analysis
    root,               \* the root path: whether it exists, and what lies under it
    fd,                 \* how the external finder behaves on this machine
    disc_pc,            \* where the request is
    finder,             \* the enumeration back end that was run, if one was
    returned            \* what the entry point returned to its caller, once it has

analysis_vars == <<files, disk, env_count, pc, idx, groups, order, file_groups, gi,
                   pending, results, hashed, seen, run, first_groups>>
scanner_vars == <<root_directory, scan_pc, duplicate_files, duplicate_groups,
                  unique_files, sim_files, sim_duplicates, file_contents, next_pair,
                  similarity_scores, inserts, tested, aligned, entered>>
call_vars == <<call, arg1, arg2, out>>
retry_vars == <<locked_files, retry_results, added, invocations, reports, cycles, outcomes>>
discover_vars == <<entry_point, root, fd, disc_pc, finder, returned>>

vars == <<analysis_vars, scanner_vars, call_vars, retry_vars, discover_vars>>

\* What analyze_directory never touches.
beyond_analysis == <<scanner_vars, call_vars, retry_vars, discover_vars>>

grouper_vars == <<idx, groups, order, file_groups>>
detector_vars == <<gi, pending, results, hashed, seen>>
rerun_vars == <<run, first_groups>>
env_vars == <<disk, env_count>>

\* An empty HashMap / an empty path -> value map.
EmptyMap == [k \in {} |-> 0]

\* DuplicateResults::new
NewResults == [total_duplicates |-> 0, space_wasted |-> 0, duplicate_groups |-> <<>>]

\* FileScanner::new, with the HashMap FileSimilarity::new creates; no call of
\* calculate_similarity is under way.
FileScannerNew ==
    /\ scan_pc = "new"
    /\ duplicate_files = {}
    /\ duplicate_groups = <<>>
    /\ unique_files = {}
    /\ sim_files = <<>>
    /\ sim_duplicates = {}
    /\ file_contents = <<>>
    /\ next_pair = <<>>
    /\ similarity_scores = EmptyMap
    /\ inserts = EmptyMap
    /\ tested = {}
    /\ aligned = {}
    /\ entered = "none"

\* No scanner is run on any directory.
NoScanner ==
    /\ root_directory = EmptyMap
    /\ FileScannerNew

\* No pure function is being called.
NoCall ==
    /\ call = "none"
    /\ arg1 = <<>>
    /\ arg2 = <<>>
    /\ out = <<>>

\* analyze_directory is not run.
NoAnalysis ==
    /\ files = <<>>
    /\ disk = EmptyMap
    /\ env_count = 0
    /\ pc = "none"
    /\ idx = 1
    /\ groups = EmptyMap
    /\ order = <<>>
    /\ file_groups = <<>>
    /\ gi = 1
    /\ pending = <<>>
    /\ results = NewResults
    /\ hashed = EmptyMap
    /\ seen = <<>>
    /\ run = 1
    /\ first_groups = <<>>

\* No analysis was asked for through an entry point: the list of paths is
\* given as it is.
NoRequest ==
    /\ entry_point = "none"
    /\ root = [exists |-> TRUE, walk |-> <<>>, dir |-> EmptyMap]
    /\ fd = "not_installed"
    /\ disc_pc = "none"
    /\ finder = "none"
    /\ returned = <<>>

\* RetryManager::default, as FerretPlatform::new builds it.
RetryManagerDefault ==
    /\ locked_files = <<>>
    /\ retry_results = <<>>
    /\ added = 0
    /\ invocations = <<>>
    /\ reports = <<>>
    /\ cycles = 0
    /\ outcomes = <<>>

\* ------------------------------------------------ SmartGrouper::group_files

\* The Some(score) with score >= threshold test of the inner loop.
Similar(normalized, canonical_name) ==
    LET found == fuzzy_match(normalized, canonical_name)
    IN  found.some /\ found.score >= threshold

\* The keys of HashMap m whose group the inner loop would push the file into.
Matching(m, normalized) == {k \in DOMAIN m : Similar(normalized, k)}

FileGroup(name, members) == [canonical_name |-> name, variants |-> members]

\* HashMap::insert: a new entry, or the value of an existing key replaced.
Insert(m, k, v) == [x \in DOMAIN m \cup {k} |-> IF x = k THEN v ELSE m[x]]

\* A bug of Pushed: the new member is put in front of the others.
PushedInFront(group, file) == [group EXCEPT !.variants = <<file>> \o @]

\* group.variants.push(file)
Pushed(group, file) == [group EXCEPT !.variants = Append(@, file)]

\* One iteration of the outer loop, for path files[idx]. The inner loop visits
\* the HashMap in its iteration order, which no code fixes, and stops at the
\* first group that is similar enough: any of the matching groups.
GroupFile ==
    /\ pc = "group"
    /\ idx <= Len(files)
    /\ LET file == files[idx]
           normalized == normalize_filename(file)
           found == Matching(groups, normalized)
       IN  IF found # {}
           THEN /\ \E k \in found : groups' = [groups EXCEPT ![k] = Pushed(@, file)]
                /\ order' = order
           ELSE /\ groups' = Insert(groups, normalized, FileGroup(normalized, <<file>>))
                /\ order' = IF normalized \in DOMAIN groups THEN order
                            ELSE Append(order, normalized)
    /\ idx' = idx + 1
    /\ UNCHANGED <<files, pc, file_groups>>
    /\ UNCHANGED <<detector_vars, rerun_vars, env_vars>>
    /\ UNCHANGED beyond_analysis

\* groups.into_values().collect(): the groups, in the HashMap's iteration order.
CollectGroups ==
    /\ pc = "group"
    /\ idx > Len(files)
    /\ \E keys \in Orderings(DOMAIN groups) :
           file_groups' = [i \in 1..Len(keys) |-> groups[keys[i]]]
    /\ pc' = "detect"
    /\ UNCHANGED <<files, idx, groups, order>>
    /\ UNCHANGED <<detector_vars, rerun_vars, env_vars>>
    /\ UNCHANGED beyond_analysis

\* --------------------------------------------------------- the file system

\* A file that is there and can be read.
Present(content) == [state |-> "present", content |-> content]

\* Path::exists, through std::fs::metadata.
exists(dsk, path) == dsk[path].state # "removed"

\* A Result: Ok(value) or Err.
Ok(v) == [ok |-> TRUE, value |-> v]
Err == [ok |-> FALSE, value |-> 0]

\* The SHA-256 digest of a content, in hex: one digest per content.
Sha256(content) == <<"sha256", content>>

\* A bug of hash_file: a file that cannot be opened is hashed all the same.
hash_file_though_unreadable(dsk, path) ==
    IF dsk[path].state # "removed" THEN Ok(Sha256(dsk[path].content)) ELSE Err

\* SmartDuplicateDetector::hash_file: open, read to the end, digest.
hash_file(dsk, path) ==
    IF dsk[path].state = "present" THEN Ok(Sha256(dsk[path].content)) ELSE Err

\* std::fs::metadata(path).len()
metadata_len(dsk, path) ==
    IF exists(dsk, path) THEN Ok(SizeOf(dsk[path].content)) ELSE Err

\* ----------------------------------------------- SmartDuplicateDetector

\* FileGroup::is_potential_duplicate
is_potential_duplicate(group) == Len(group.variants) > 1

\* The members of the group that hashing reaches: they exist and hash_file
\* returns Ok.
Hashable(dsk, group) ==
    {p \in Range(group.variants) : exists(dsk, p) /\ hash_file(dsk, p).ok}

\* A bug of HashBuckets: a path is put in front of the paths that have its
\* digest.
HashBuckets_newest_first(dsk, group) ==
    LET digests == {hash_file(dsk, p).value : p \in Hashable(dsk, group)}
        backwards == [i \in 1..Len(group.variants) |->
                         group.variants[Len(group.variants) + 1 - i]]
    IN  [h \in digests |->
            SelectSeq(backwards,
                      LAMBDA p : p \in Hashable(dsk, group) /\ hash_file(dsk, p).value = h)]

\* The hash_map of find_exact_duplicates_in_group: digest -> the paths with
\* that digest, in the order of group.variants.
HashBuckets(dsk, group) ==
    LET digests == {hash_file(dsk, p).value : p \in Hashable(dsk, group)}
    IN  [h \in digests |->
            SelectSeq(group.variants,
                      LAMBDA p : p \in Hashable(dsk, group) /\ hash_file(dsk, p).value = h)]

\* A bug of Reported: buckets of one file are reported too.
ReportedWithSingles(buckets) == {buckets[h] : h \in {d \in DOMAIN buckets : Len(buckets[d]) > 0}}

\* .filter(|group| group.len() > 1)
Reported(buckets) == {buckets[h] : h \in {d \in DOMAIN buckets : Len(buckets[d]) > 1}}

\* SmartDuplicateDetector::find_exact_duplicates_in_group: every value it can
\* return, the Vec following the iteration order of hash_map.
find_exact_duplicates_in_group(dsk, group) == Orderings(Reported(HashBuckets(dsk, group)))

\* ------------------------------------- DuplicateResults::add_duplicate_group

RECURSIVE SumSeq(_)
SumSeq(s) == IF s = <<>> THEN 0 ELSE Head(s) + SumSeq(Tail(s))

\* A bug of Duplicates: the first member is counted too.
DuplicatesWithOriginal(duplicate_set) ==
    IF Len(duplicate_set) > 1 THEN Len(duplicate_set) ELSE 0

\* What one duplicate set adds to total_duplicates.
Duplicates(duplicate_set) ==
    IF Len(duplicate_set) > 1 THEN Len(duplicate_set) - 1 ELSE 0

\* A bug of Wasted: the first member's size is added too.
WastedWithOriginal(dsk, duplicate_set) ==
    IF Len(duplicate_set) > 1
    THEN SumSeq([i \in 1..Len(duplicate_set) |->
                    LET md == metadata_len(dsk, duplicate_set[i])
                    IN  IF md.ok THEN md.value ELSE 0])
    ELSE 0

\* What one duplicate set adds to space_wasted: the length std::fs::metadata
\* gives for each member after the first, nothing for one it gives an error for.
Wasted(dsk, duplicate_set) ==
    IF Len(duplicate_set) > 1
    THEN SumSeq([i \in 1..(Len(duplicate_set) - 1) |->
                    LET md == metadata_len(dsk, duplicate_set[i + 1])
                    IN  IF md.ok THEN md.value ELSE 0])
    ELSE 0

DuplicateGroup(name, sets) == [base_name |-> name, duplicate_sets |-> sets]

add_duplicate_group(res, dsk, group) ==
    [total_duplicates |->
         res.total_duplicates
         + SumSeq([i \in 1..Len(group.duplicate_sets) |-> Duplicates(group.duplicate_sets[i])]),
     space_wasted |->
         res.space_wasted
         + SumSeq([i \in 1..Len(group.duplicate_sets) |-> Wasted(dsk, group.duplicate_sets[i])]),
     duplicate_groups |-> Append(res.duplicate_groups, group)]

\* ---------------------------------- SmartDuplicateDetector::detect_duplicates

\* A group of one file is passed over.
SkipGroup ==
    /\ pc = "detect"
    /\ gi <= Len(file_groups)
    /\ ~is_potential_duplicate(file_groups[gi])
    /\ gi' = gi + 1
    /\ UNCHANGED <<files, pc, pending, results, hashed, seen>>
    /\ UNCHANGED <<grouper_vars, rerun_vars, env_vars>>
    /\ UNCHANGED beyond_analysis

\* The members of group gi are hashed; with no duplicate set found the loop
\* moves on, else the sets wait to be added to the results.
HashGroup ==
    /\ pc = "detect"
    /\ gi <= Len(file_groups)
    /\ is_potential_duplicate(file_groups[gi])
    /\ LET group == file_groups[gi]
       IN  /\ hashed' = [p \in DOMAIN hashed \cup Hashable(disk, group) |->
                            IF p \in Hashable(disk, group)
                            THEN hash_file(disk, p).value ELSE hashed[p]]
           /\ \E duplicate_sets \in find_exact_duplicates_in_group(disk, group) :
                  IF duplicate_sets = <<>>
                  THEN /\ gi' = gi + 1
                       /\ UNCHANGED <<pc, pending>>
                  ELSE /\ pending' = duplicate_sets
                       /\ pc' = "add"
                       /\ gi' = gi
    /\ UNCHANGED <<files, results, seen>>
    /\ UNCHANGED <<grouper_vars, rerun_vars, env_vars>>
    /\ UNCHANGED beyond_analysis

\* results.add_duplicate_group(DuplicateGroup { base_name, duplicate_sets })
AddGroup ==
    /\ pc = "add"
    /\ results' = add_duplicate_group(results, disk,
                      DuplicateGroup(file_groups[gi].canonical_name, pending))
    /\ seen' = Append(seen, disk)
    /\ pending' = <<>>
    /\ gi' = gi + 1
    /\ pc' = "detect"
    /\ UNCHANGED <<files, hashed>>
    /\ UNCHANGED <<grouper_vars, rerun_vars, env_vars>>
    /\ UNCHANGED beyond_analysis

\* Every group visited: detect_duplicates returns Ok(results) and
\* analyze_directory builds its AnalysisResults.
Finish ==
    /\ pc = "detect"
    /\ gi > Len(file_groups)
    /\ pc' = "done"
    /\ UNCHANGED <<files, detector_vars, grouper_vars, rerun_vars, env_vars>>
    /\ UNCHANGED beyond_analysis

\* AnalysisResults of analyze_directory.
total_files == SumSeq([i \in 1..Len(file_groups) |-> Len(file_groups[i].variants)])
total_groups == Len(file_groups)

\* ------------------------------------------------------ the outside world

\* Other programs change the directory while detect_duplicates runs.
EnvGuard == env_count < MaxEnv /\ pc \in {"detect", "add"}

\* A file is deleted.
EnvRemove ==
    /\ EnvGuard
    /\ \E p \in DOMAIN disk :
           /\ disk[p].state # "removed"
           /\ disk' = [disk EXCEPT ![p].state = "removed"]
    /\ env_count' = env_count + 1
    /\ UNCHANGED <<files, pc, grouper_vars, detector_vars, rerun_vars>>
    /\ UNCHANGED beyond_analysis

\* A file is locked or its read permission is taken away: it is still listed,
\* with its size, but can no longer be opened.
EnvDeny ==
    /\ EnvGuard
    /\ \E p \in DOMAIN disk :
           /\ disk[p].state = "present"
           /\ disk' = [disk EXCEPT ![p].state = "denied"]
    /\ env_count' = env_count + 1
    /\ UNCHANGED <<files, pc, grouper_vars, detector_vars, rerun_vars>>
    /\ UNCHANGED beyond_analysis

\* A file is rewritten with another content.
EnvModify ==
    /\ EnvGuard
    /\ \E p \in DOMAIN disk, content \in Contents :
           /\ disk[p].state = "present"
           /\ content # disk[p].content
           /\ disk' = [disk EXCEPT ![p].content = content]
    /\ env_count' = env_count + 1
    /\ UNCHANGED <<files, pc, grouper_vars, detector_vars, rerun_vars>>
    /\ UNCHANGED beyond_analysis

\* ------------------------------------------------------- analyze_directory

\* A directory, enumerated in some order; nothing grouped or hashed yet.
Init ==
    /\ \E dir \in Dirs :
           /\ files \in ListsOf(DOMAIN dir, MaxFiles)
           /\ disk = [p \in Range(files) |-> Present(dir[p])]
    /\ env_count = 0
    /\ pc = "group"
    /\ idx = 1
    /\ groups = EmptyMap
    /\ order = <<>>
    /\ file_groups = <<>>
    /\ gi = 1
    /\ pending = <<>>
    /\ results = NewResults
    /\ hashed = EmptyMap
    /\ seen = <<>>
    /\ run = 1
    /\ first_groups = <<>>
    /\ NoScanner
    /\ NoCall
    /\ RetryManagerDefault
    /\ NoRequest

Next ==
    \/ GroupFile
    \/ CollectGroups
    \/ SkipGroup
    \/ HashGroup
    \/ AddGroup
    \/ Finish
    \/ EnvRemove
    \/ EnvDeny
    \/ EnvModify

Spec == Init /\ [][Next]_vars

\* ------------------------------------------------- group_files, run twice

\* The caller keeps what group_files returned and calls it again on the same
\* list of paths.
Rerun ==
    /\ pc = "detect"
    /\ run = 1
    /\ first_groups' = file_groups
    /\ run' = 2
    /\ pc' = "group"
    /\ idx' = 1
    /\ groups' = EmptyMap
    /\ order' = <<>>
    /\ file_groups' = <<>>
    /\ UNCHANGED <<files, detector_vars, env_vars>>
    /\ UNCHANGED beyond_analysis

NextRerun ==
    \/ GroupFile
    \/ CollectGroups
    \/ Rerun

SpecRerun == Init /\ [][NextRerun]_vars


\* ============================================== file_scanner::similarity

\* --------------------------------------------------------------- f64

RECURSIVE Gcd(_, _)
Gcd(a, b) == IF b = 0 THEN a ELSE Gcd(b, a % b)

\* The f64 that n as f64 / d as f64 gives, for n >= 0 and d >= 0 far below
\* 2^53: the quotient in lowest terms, two quotients being the same f64
\* exactly if they are the same fraction; 0.0 / 0.0 is NaN, kept as 0 over 0.
f64_div(n, d) ==
    IF d = 0 THEN [num |-> 0, den |-> 0]
    ELSE [num |-> n \div Gcd(n, d), den |-> d \div Gcd(n, d)]

NaN == [num |-> 0, den |-> 0]
is_nan(x) == x.den = 0

\* The literals 0.0 and 1.0.
Zero == [num |-> 0, den |-> 1]
One == [num |-> 1, den |-> 1]

\* == on f64: never true of a NaN.
f64_eq(x, y) == ~is_nan(x) /\ ~is_nan(y) /\ x = y

\* >= on f64: never true of a NaN.
f64_ge(x, y) == ~is_nan(x) /\ ~is_nan(y) /\ x.num * y.den >= y.num * x.den

\* ------------------------------------------------------------ constants

SIMILARITY_THRESHOLD == f64_div(7, 10)
MIN_SHINGLE_SIZE == 2
MAX_SHINGLE_SIZE == 10
MATCH_SCORE == 3
MISMATCH_SCORE == -1
GAP_PENALTY == -2
MAX_FILE_SIZE == 100 * 1024

\* --------------------------------------------------------------- String

\* A String is a sequence of characters; é and ü take two bytes each in
\* UTF-8, the ASCII characters one.
Utf8Width(c) == IF c \in {"é", "ü"} THEN 2 ELSE 1

\* str::len: the length in bytes.
RECURSIVE str_len(_)
str_len(s) == IF s = <<>> THEN 0 ELSE Utf8Width(Head(s)) + str_len(Tail(s))

\* s.chars().nth(n): the Option<char> as a sequence, of the one character or,
\* past the last character, of none.
chars_nth(s, n) == IF n < Len(s) THEN <<s[n + 1]>> ELSE <<>>

\* str::split_whitespace, the word in progress carried along.
RECURSIVE SplitFrom(_, _, _)
SplitFrom(s, i, word) ==
    IF i > Len(s) THEN (IF word = <<>> THEN <<>> ELSE <<word>>)
    ELSE IF s[i] \in Whitespace
         THEN (IF word = <<>> THEN <<>> ELSE <<word>>) \o SplitFrom(s, i + 1, <<>>)
         ELSE SplitFrom(s, i + 1, Append(word, s[i]))

split_whitespace(s) == SplitFrom(s, 1, <<>>)

\* [&str]::join(" ")
RECURSIVE join(_)
join(words) ==
    IF words = <<>> THEN <<>>
    ELSE IF Len(words) = 1 THEN words[1]
    ELSE words[1] \o <<" ">> \o join(Tail(words))

\* usize::clamp
clamp(x, lo, hi) == IF x < lo THEN lo ELSE IF x > hi THEN hi ELSE x

\* ------------------------------------------------ what a file holds

\* A file of text.
Text(chars) == [kind |-> "text", chars |-> chars]

\* A file of size bytes, all the one letter x: valid UTF-8, one long word.
Blob(size) == [kind |-> "blob", size |-> size]

\* A file of text of size bytes: the words, with as many spaces between and
\* after them as it takes.
Spaced(words, size) == [kind |-> "spaced", words |-> words, size |-> size]

\* A file whose bytes are no valid UTF-8.
Binary == [kind |-> "binary", size |-> 4]

\* What read_to_string puts into contents: the length in bytes, the words and
\* the characters of the String read.
content_len(content) ==
    IF content.kind = "text" THEN str_len(content.chars) ELSE content.size

content_words(content) ==
    IF content.kind = "text" THEN split_whitespace(content.chars)
    ELSE IF content.kind = "spaced" THEN content.words
    ELSE IF content.size = 0 THEN <<>> ELSE <<content>>

content_chars(content) ==
    IF content.kind = "text" THEN content.chars
    ELSE IF content.kind = "spaced"
         THEN [i \in 1..content.size |->
                  IF i <= Len(join(content.words)) THEN join(content.words)[i] ELSE " "]
    ELSE [i \in 1..content.size |-> "x"]

\* A bug of is_relevant_size: a file of exactly MAX_FILE_SIZE bytes is dropped.
is_relevant_size_exclusive(content) == content_len(content) < MAX_FILE_SIZE

\* FileSimilarity::is_relevant_size
is_relevant_size(content) == content_len(content) <= MAX_FILE_SIZE

\* FileSimilarity::determine_shingle_size
determine_shingle_size(content_length) ==
    clamp(content_length \div 50, MIN_SHINGLE_SIZE, MAX_SHINGLE_SIZE)

\* FileSimilarity::shingle_file: the loop runs over
\* 0..words.len().saturating_sub(shingle_size).
shingle_file(content) ==
    LET shingle_size == determine_shingle_size(content_len(content))
        words == content_words(content)
    IN  IF Len(words) < shingle_size THEN {}
        ELSE {join(SubSeq(words, i + 1, i + shingle_size)) :
                  i \in 0..(Len(words) - shingle_size - 1)}

\* A bug of shingle_similarity: the sizes of the two sets are added up for the
\* union.
shingle_similarity_by_sum(shingles1, shingles2) ==
    IF shingles1 = {} \/ shingles2 = {} THEN Zero
    ELSE f64_div(Cardinality(shingles1 \cap shingles2),
                 Cardinality(shingles1) + Cardinality(shingles2))

\* FileSimilarity::shingle_similarity
shingle_similarity(shingles1, shingles2) ==
    IF shingles1 = {} \/ shingles2 = {} THEN Zero
    ELSE f64_div(Cardinality(shingles1 \cap shingles2),
                 Cardinality(shingles1 \cup shingles2))

\* ------------------------------- FileSimilarity::smith_waterman_rolling

\* A bug of match_mismatch: a position past the last character of both
\* strings counts as a mismatch.
match_mismatch_strict(seq1, seq2, i, j) ==
    IF chars_nth(seq1, i - 1) # <<>> /\ chars_nth(seq1, i - 1) = chars_nth(seq2, j - 1)
    THEN MATCH_SCORE ELSE MISMATCH_SCORE

\* match_mismatch for row i and column j.
match_mismatch(seq1, seq2, i, j) ==
    IF chars_nth(seq1, i - 1) = chars_nth(seq2, j - 1) THEN MATCH_SCORE ELSE MISMATCH_SCORE

\* The inner loop, for j in 1..cols: column j of a row is its element j + 1;
\* current_row comes in as the swap left it and goes out filled.
RECURSIVE FillRow(_, _, _, _, _, _)
FillRow(seq1, seq2, i, j, prev_row, current_row) ==
    IF j > str_len(seq2) THEN current_row
    ELSE LET cell == Max2(0,
                          Max2(prev_row[j] + match_mismatch(seq1, seq2, i, j),
                               Max2(prev_row[j + 1] + GAP_PENALTY,
                                    current_row[j] + GAP_PENALTY)))
         IN  FillRow(seq1, seq2, i, j + 1, prev_row, [current_row EXCEPT ![j + 1] = cell])

\* The largest element of a row.
RECURSIVE RowMax(_)
RowMax(row) == IF row = <<>> THEN 0 ELSE Max2(Head(row), RowMax(Tail(row)))

RECURSIVE MaxScore(_, _, _, _, _, _)

\* A bug of MaxScore: the two rows are not swapped at the end of an
\* iteration.
MaxScore_without_swap(seq1, seq2, i, prev_row, current_row, max_score) ==
    IF i > str_len(seq1) THEN max_score
    ELSE LET filled == FillRow(seq1, seq2, i, 1, prev_row, current_row)
         IN  MaxScore(seq1, seq2, i + 1, prev_row, filled,
                      Max2(max_score, RowMax(Tail(filled))))

\* The outer loop, for i in 1..rows, with the swap of the two rows at its end:
\* max_score when the loop is left.
MaxScore(seq1, seq2, i, prev_row, current_row, max_score) ==
    IF i > str_len(seq1) THEN max_score
    ELSE LET filled == FillRow(seq1, seq2, i, 1, prev_row, current_row)
         IN  MaxScore(seq1, seq2, i + 1, filled, prev_row,
                      Max2(max_score, RowMax(Tail(filled))))

\* max_score of smith_waterman_rolling(seq1, seq2), before it is normalized.
raw_score(seq1, seq2) ==
    LET zeros == [j \in 1..(str_len(seq2) + 1) |-> 0]
    IN  MaxScore(seq1, seq2, 1, zeros, zeros, 0)

\* A bug of smith_waterman_rolling: the score is normalized by the length of
\* the first string.
smith_waterman_rolling_by_first(seq1, seq2) ==
    f64_div(raw_score(seq1, seq2), str_len(seq1) * MATCH_SCORE)

\* A bug of smith_waterman_rolling: the score is normalized by the longer
\* length alone, without MATCH_SCORE.
smith_waterman_rolling_unscaled(seq1, seq2) ==
    f64_div(raw_score(seq1, seq2), Max2(str_len(seq1), str_len(seq2)))

\* FileSimilarity::smith_waterman_rolling
smith_waterman_rolling(seq1, seq2) ==
    f64_div(raw_score(seq1, seq2), Max2(str_len(seq1), str_len(seq2)) * MATCH_SCORE)

\* ----------------------------------- the pure functions, called once

\* The characters of the strings aligned.
Alphabet == {"a", "b", "é"}

\* The strings of at most n characters: those over the alphabet, and those
\* of the one character ü.
Strings(n) == UNION {[1..k -> Alphabet] \cup [1..k -> {"ü"}] : k \in 0..n}

\* Shingles of two words each.
ShingleNames ==
    << <<"a", " ", "b">>, <<"b", " ", "c">>, <<"c", " ", "d">>,
       <<"d", " ", "e">>, <<"e", " ", "f">> >>

ShingleUniverse == {ShingleNames[i] : i \in 1..MaxShingles}

\* The words of the contents shingled.
WordLetters == <<"a", "b", "c", "d", "e", "f">>

\* The first n of the words, of one letter each.
Worded(n) == [i \in 1..n |-> <<WordLetters[i]>>]

\* The contents shingled: up to MaxWords words, with one space between two
\* (shingles of two words), or spaced out over 150 bytes (shingles of three).
ShingleContents ==
    {Text(join(Worded(n))) : n \in 0..MaxWords}
    \cup {Spaced(Worded(n), 150) : n \in 0..MaxWords}

\* What call_vars leaves alone.
beyond_call == <<analysis_vars, scanner_vars, retry_vars, discover_vars>>

\* shingle_similarity is about to be called on two sets of shingles,
\* smith_waterman_rolling on two strings, or shingle_file on a content.
InitCall ==
    /\ \/ /\ call = "shingle_similarity"
          /\ arg1 \in SUBSET ShingleUniverse
          /\ arg2 \in SUBSET ShingleUniverse
       \/ /\ call = "smith_waterman_rolling"
          /\ arg1 \in Strings(MaxStrLen)
          /\ arg2 \in Strings(MaxStrLen)
       \/ /\ call = "shingle_file"
          /\ arg1 \in ShingleContents
          /\ arg2 = <<>>
    /\ out = <<>>
    /\ NoAnalysis
    /\ NoScanner
    /\ RetryManagerDefault
    /\ NoRequest

\* shingle_similarity(arg1, arg2) returns.
CallShingleSimilarity ==
    /\ call = "shingle_similarity"
    /\ out = <<>>
    /\ out' = <<shingle_similarity(arg1, arg2)>>
    /\ UNCHANGED <<call, arg1, arg2>>
    /\ UNCHANGED beyond_call

\* smith_waterman_rolling(arg1, arg2) returns.
CallSmithWaterman ==
    /\ call = "smith_waterman_rolling"
    /\ out = <<>>
    /\ out' = <<smith_waterman_rolling(arg1, arg2)>>
    /\ UNCHANGED <<call, arg1, arg2>>
    /\ UNCHANGED beyond_call

\* shingle_file(arg1) returns.
CallShingleFile ==
    /\ call = "shingle_file"
    /\ out = <<>>
    /\ out' = <<shingle_file(arg1)>>
    /\ UNCHANGED <<call, arg1, arg2>>
    /\ UNCHANGED beyond_call

NextCall ==
    \/ CallShingleSimilarity
    \/ CallSmithWaterman
    \/ CallShingleFile

SpecCall == InitCall /\ [][NextCall]_vars

\* ============================================================ FileScanner

\* ------------------------------------------------------ scanned directories

\* The contents of the text files.
a_b_c == Text(<<"a", " ", "b", " ", "c">>)
a_b_d == Text(<<"a", " ", "b", " ", "d">>)
c_b_a == Text(<<"c", " ", "b", " ", "a">>)
a_b_c_d == Text(<<"a", " ", "b", " ", "c", " ", "d">>)

\* A file that is listed but cannot be opened.
Denied(content) == [state |-> "denied", content |-> content]

\* An entry WalkDir yields an Err for.
WalkError == [state |-> "walk_error", content |-> Binary]

\* The directories scanned: path -> what WalkDir finds there.
ScanDirs ==
    { ("f1" :> Present(a_b_c)) @@ ("f2" :> Present(a_b_d)) @@ ("f3" :> Present(c_b_a)),
      ("f1" :> Present(a_b_c_d)) @@ ("f2" :> Present(a_b_c_d)) @@ ("f3" :> Present(a_b_c)),
      ("f1" :> Present(Binary)) @@ ("f2" :> Present(a_b_c)) @@ ("f3" :> Present(a_b_d)),
      ("f1" :> Denied(a_b_c)) @@ ("f2" :> Present(a_b_c)) @@ ("f3" :> Present(a_b_d)),
      ("f1" :> WalkError) @@ ("f2" :> Present(a_b_c)) @@ ("f3" :> Present(a_b_c)),
      ("f1" :> Present(Blob(MAX_FILE_SIZE + 1))) @@ ("f2" :> Present(Blob(MAX_FILE_SIZE + 1)))
          @@ ("f3" :> Present(Blob(MAX_FILE_SIZE))) @@ ("f4" :> Present(Blob(MAX_FILE_SIZE))) }

\* Path::is_file
is_file(dir, path) == dir[path].state \in {"present", "denied"}

\* ---------------------------------------------------------- FileHasher

\* FileHasher::calculate_hash: open, read_to_end, digest.
calculate_hash(dir, path) ==
    IF dir[path].state = "present" THEN Ok(Sha256(dir[path].content)) ELSE Err

\* FileHasher::scan_directory: the map duplicates after the walk, hash -> the
\* paths with that hash in the order they were walked; entries that are an
\* Err, are no file or cannot be hashed are passed over.
scan_directory(dir, walk) ==
    LET hashed_ok == {p \in Range(walk) : is_file(dir, p) /\ calculate_hash(dir, p).ok}
        digests == {calculate_hash(dir, p).value : p \in hashed_ok}
    IN  [h \in digests |->
            SelectSeq(walk, LAMBDA p : p \in hashed_ok /\ calculate_hash(dir, p).value = h)]

\* FileHasher::get_duplicates: every Vec it can return, following the
\* iteration order of the map.
get_duplicates(duplicates) ==
    Orderings({duplicates[h] : h \in {d \in DOMAIN duplicates : Len(duplicates[d]) > 1}})

\* What the scanner's detect_duplicates and run_similarity_scoring leave alone.
beyond_scanner == <<analysis_vars, call_vars, retry_vars, discover_vars>>

\* FileScanner::run_all_analyses, its first step: detect_duplicates. (The
\* aging analysis that follows changes none of the sets.)
DetectDuplicates ==
    /\ scan_pc = "new"
    /\ \E walk \in Orderings(DOMAIN root_directory) :
       \E found \in get_duplicates(scan_directory(root_directory, walk)) :
           /\ duplicate_groups' = found
           /\ duplicate_files' = UNION {Range(found[g]) : g \in 1..Len(found)}
    /\ scan_pc' = "detected"
    /\ entered' = "run_all_analyses"
    /\ UNCHANGED <<root_directory, unique_files, sim_files, sim_duplicates, file_contents,
                   next_pair, similarity_scores, inserts, tested, aligned>>
    /\ UNCHANGED beyond_scanner

\* ------------------------------------------------------- FileSimilarity

\* File::open(&file_path) is Ok.
opens(dir, path) == dir[path].state = "present"

\* read_to_string is Ok: the bytes are valid UTF-8.
reads_as_text(content) == content.kind # "binary"

\* load_files panics: a file opens and the unwrap of read_to_string fails.
load_panics(dir, paths) ==
    \E i \in 1..Len(paths) : opens(dir, paths[i]) /\ ~reads_as_text(dir[paths[i]].content)

\* FileSimilarity::load_files, when it does not panic: the (path, contents)
\* of the files that open and are of relevant size, in the order of the list.
RECURSIVE load_files(_, _)
load_files(dir, paths) ==
    IF paths = <<>> THEN <<>>
    ELSE LET file_path == Head(paths)
             kept == IF opens(dir, file_path) /\ is_relevant_size(dir[file_path].content)
                     THEN <<[path |-> file_path, contents |-> dir[file_path].content]>>
                     ELSE <<>>
         IN  kept \o load_files(dir, Tail(paths))

\* calculate_similarity up to the start of the parallel loop: the files are
\* loaded and one worker per loaded file is about to start at the file after
\* its own.
StartScoring(paths, known) ==
    /\ sim_files' = paths
    /\ sim_duplicates' = known
    /\ IF load_panics(root_directory, paths)
       THEN /\ scan_pc' = "panicked"
            /\ UNCHANGED <<file_contents, next_pair>>
       ELSE /\ scan_pc' = "scoring"
            /\ file_contents' = load_files(root_directory, paths)
            /\ next_pair' = [i \in 1..Len(load_files(root_directory, paths)) |-> i + 1]
    /\ UNCHANGED <<similarity_scores, inserts, tested, aligned>>

\* Every list of at most n members of S, a member possibly more than once.
ListsWithRepeats(S, n) == UNION {[1..k -> S] : k \in 0..n}

\* FileSimilarity::calculate_similarity called by a user of the library, on
\* paths of its choice and either a set of its choice or, after
\* detect_duplicates, the scanner's duplicate_files.
CalculateSimilarity ==
    /\ scan_pc \in {"new", "detected"}
    /\ \E paths \in ListsWithRepeats(DOMAIN root_directory, MaxCallFiles) :
       \E known \in (IF scan_pc = "new" THEN SUBSET DOMAIN root_directory
                     ELSE {duplicate_files}) :
           StartScoring(paths, known)
    /\ entered' = "calculate_similarity"
    /\ UNCHANGED <<root_directory, duplicate_files, duplicate_groups, unique_files>>
    /\ UNCHANGED beyond_scanner

\* The index of the first entry of the walk that is an Err, or 0.
FirstError(dir, walk) ==
    LET errors == {i \in 1..Len(walk) : dir[walk[i]].state = "walk_error"}
    IN  IF errors = {} THEN 0 ELSE CHOOSE i \in errors : \A k \in errors : i <= k

\* A bug of not_known: a file counts as unique whether or not it is a known
\* duplicate.
not_known_or_known(known, path) == path \in known \/ path \notin known

\* !self.duplicate_files.contains(&path)
not_known(known, path) == path \notin known

\* FileScanner::run_similarity_scoring: the walk unwraps every entry, and
\* panics at the first that is an Err; the files that are no known duplicates
\* are handed to calculate_similarity in the iteration order of unique_files.
RunSimilarityScoring ==
    /\ scan_pc = "detected"
    /\ \E walk \in Orderings(DOMAIN root_directory) :
           LET stop == FirstError(root_directory, walk)
               walked == IF stop = 0 THEN Range(walk) ELSE {walk[i] : i \in 1..(stop - 1)}
               unique == unique_files \cup
                             {path \in walked : /\ is_file(root_directory, path)
                                                /\ not_known(duplicate_files, path)}
           IN  /\ unique_files' = unique
               /\ IF stop # 0
                  THEN /\ scan_pc' = "panicked"
                       /\ UNCHANGED <<sim_files, sim_duplicates, file_contents, next_pair,
                                      similarity_scores, inserts, tested, aligned>>
                  ELSE \E paths \in Orderings(unique) : StartScoring(paths, duplicate_files)
    /\ UNCHANGED <<root_directory, duplicate_files, duplicate_groups, entered>>
    /\ UNCHANGED beyond_scanner

\* scores.insert(key, score), and the count of the inserts of that key.
ScoreInserted(key, score) ==
    /\ similarity_scores' = Insert(similarity_scores, key, score)
    /\ inserts' = Insert(inserts, key,
                         (IF key \in DOMAIN inserts THEN inserts[key] ELSE 0) + 1)

\* A bug of the threshold test: the pair is aligned from half the shingles on.
passes_from_half(shingle_score) == f64_ge(shingle_score, f64_div(1, 2))

\* shingle_score >= SIMILARITY_THRESHOLD
passes(shingle_score) == f64_ge(shingle_score, SIMILARITY_THRESHOLD)

\* A bug of the short-circuit: one known duplicate is enough.
both_known_either(known, path1, path2) == path1 \in known \/ path2 \in known

\* duplicate_files.contains(path1) && duplicate_files.contains(path2)
both_known(known, path1, path2) == path1 \in known /\ path2 \in known

\* One iteration of the inner loop of the parallel worker for file i: the
\* pair of file i and file j = next_pair[i].
ComparePairOf(i) ==
    /\ scan_pc = "scoring"
    /\ i \in 1..Len(file_contents)
    /\ next_pair[i] <= Len(file_contents)
    /\ LET j == next_pair[i]
           path1 == file_contents[i].path
           path2 == file_contents[j].path
           content1 == file_contents[i].contents
           content2 == file_contents[j].contents
           shingle_score == shingle_similarity(shingle_file(content1), shingle_file(content2))
       IN  IF both_known(sim_duplicates, path1, path2)
           THEN /\ ScoreInserted(<<path1, path2>>, One)
                /\ UNCHANGED <<tested, aligned>>
           ELSE /\ tested' = tested \cup {<<i, j>>}
                /\ IF passes(shingle_score)
                   THEN /\ aligned' = aligned \cup {<<i, j>>}
                        /\ ScoreInserted(<<path1, path2>>,
                               smith_waterman_rolling(content_chars(content1),
                                                      content_chars(content2)))
                   ELSE UNCHANGED <<aligned, similarity_scores, inserts>>
    /\ next_pair' = [next_pair EXCEPT ![i] = @ + 1]
    /\ UNCHANGED <<root_directory, scan_pc, duplicate_files, duplicate_groups,
                   unique_files, sim_files, sim_duplicates, file_contents, entered>>
    /\ UNCHANGED beyond_scanner

\* Some worker takes its next step; the workers run in parallel, in any order.
ComparePair == \E i \in 1..Len(file_contents) : ComparePairOf(i)

\* Every worker is through: for_each and calculate_similarity return.
ScoringDone ==
    /\ scan_pc = "scoring"
    /\ \A i \in 1..Len(file_contents) : next_pair[i] > Len(file_contents)
    /\ scan_pc' = "done"
    /\ UNCHANGED <<root_directory, duplicate_files, duplicate_groups, unique_files,
                   sim_files, sim_duplicates, file_contents, next_pair,
                   similarity_scores, inserts, tested, aligned, entered>>
    /\ UNCHANGED beyond_scanner

\* A scanner is made for a directory.
InitScanner ==
    /\ root_directory \in ScanDirs
    /\ FileScannerNew
    /\ NoAnalysis
    /\ NoCall
    /\ RetryManagerDefault
    /\ NoRequest

NextScanner ==
    \/ DetectDuplicates
    \/ RunSimilarityScoring
    \/ CalculateSimilarity
    \/ ComparePair
    \/ ScoringDone

SpecScanner == InitScanner /\ [][NextScanner]_vars

\* ========================================================== RetryManager

\* RetryManager::default: max_retries
max_retries == 3

\* The files that get locked, and the error they were queued with.
LockedPaths == {"p1", "p2"}
sharing_violation == "sharing violation"

\* struct LockedFile; first_seen is the number of the add_locked_file call.
LockedFile(path, error, first_seen, retry_count) ==
    [path |-> path, error |-> error, first_seen |-> first_seen, retry_count |-> retry_count]

\* enum ProcessResult
Success(path) == [result |-> "Success", path |-> path, error |-> <<>>]
Failed(path, error) == [result |-> "Failed", path |-> path, error |-> error]

\* format!("Max retries exceeded: {}", locked_file.error)
max_retries_exceeded(error) == <<"Max retries exceeded", error>>

\* What the retry manager leaves alone.
beyond_retry == <<analysis_vars, scanner_vars, call_vars, discover_vars>>

\* RetryManager::add_locked_file
AddLockedFile ==
    /\ added < MaxLocked
    /\ \E path \in LockedPaths :
           locked_files' = Append(locked_files,
                                  LockedFile(path, sharing_violation, added + 1, 0))
    /\ added' = added + 1
    /\ invocations' = Append(invocations, 0)
    /\ reports' = Append(reports, 0)
    /\ cycles' = 0
    /\ UNCHANGED <<retry_results, outcomes>>
    /\ UNCHANGED beyond_retry

\* What can happen to a queued file in one retry cycle: is_file_locked says it
\* is still locked (never so on a build that is not for Windows); or the
\* processor is called and returns Ok, a lock error, or another error.
Outcomes == {"locked", "ok", "lock_error", "other_error"}

\* is_lock_error: the messages of a lock error name it ("access denied",
\* "being used by another process", "sharing violation", "file is locked").
is_lock_error(outcome) == outcome = "lock_error"

\* A bug of exhausted: one retry too many is allowed.
exhausted_late(locked_file) == locked_file.retry_count > max_retries

\* locked_file.retry_count >= self.max_retries
exhausted(locked_file) == locked_file.retry_count >= max_retries

\* The processor is called on the file in this cycle.
processed(locked_file, outcome) == ~exhausted(locked_file) /\ outcome # "locked"

\* The file is pushed back on self.locked_files, with one more retry counted.
requeued(locked_file, outcome) ==
    ~exhausted(locked_file) /\ (outcome = "locked" \/ is_lock_error(outcome))

\* A bug of reported: an error of the processor that is no lock error is
\* not reported.
reported_but_other_errors(locked_file, outcome) ==
    IF exhausted(locked_file)
    THEN <<Failed(locked_file.path, max_retries_exceeded(locked_file.error))>>
    ELSE IF outcome = "ok" THEN <<Success(locked_file.path)>>
    ELSE <<>>

\* The ProcessResult pushed for the file, if one is.
reported(locked_file, outcome) ==
    IF exhausted(locked_file)
    THEN <<Failed(locked_file.path, max_retries_exceeded(locked_file.error))>>
    ELSE IF outcome = "ok" THEN <<Success(locked_file.path)>>
    ELSE IF outcome = "other_error" THEN <<Failed(locked_file.path, <<"other error">>)>>
    ELSE <<>>

\* The loop of retry_locked_files over to_retry from entry k on: the results
\* pushed and the files pushed back.
RECURSIVE RetryFrom(_, _, _)
RetryFrom(to_retry, outcome, k) ==
    IF k > Len(to_retry) THEN [results |-> <<>>, locked_files |-> <<>>]
    ELSE LET locked_file == to_retry[k]
             rest == RetryFrom(to_retry, outcome, k + 1)
         IN  [results |-> reported(locked_file, outcome[k]) \o rest.results,
              locked_files |->
                  (IF requeued(locked_file, outcome[k])
                   THEN <<[locked_file EXCEPT !.retry_count = @ + 1]>>
                   ELSE <<>>) \o rest.locked_files]

\* RetryManager::retry_locked_files, one call.
RetryLockedFiles ==
    /\ \E outcome \in [1..Len(locked_files) -> Outcomes] :
           LET cycle == RetryFrom(locked_files, outcome, 1)
           IN  /\ locked_files' = cycle.locked_files
               /\ retry_results' = cycle.results
               /\ invocations' =
                      [id \in 1..Len(invocations) |->
                          IF \E k \in 1..Len(locked_files) :
                                 /\ locked_files[k].first_seen = id
                                 /\ processed(locked_files[k], outcome[k])
                          THEN invocations[id] + 1
                          ELSE invocations[id]]
               /\ reports' =
                      [id \in 1..Len(reports) |->
                          IF \E k \in 1..Len(locked_files) :
                                 /\ locked_files[k].first_seen = id
                                 /\ reported(locked_files[k], outcome[k]) # <<>>
                          THEN reports[id] + 1
                          ELSE reports[id]]
               /\ outcomes' = outcome
    /\ cycles' = IF locked_files = <<>> THEN cycles ELSE cycles + 1
    /\ UNCHANGED added
    /\ UNCHANGED beyond_retry

\* A retry manager as FerretPlatform::new builds it.
InitRetry ==
    /\ RetryManagerDefault
    /\ NoAnalysis
    /\ NoScanner
    /\ NoCall
    /\ NoRequest

NextRetry ==
    \/ AddLockedFile
    \/ RetryLockedFiles

SpecRetry == InitRetry /\ [][NextRetry]_vars


\* ============================================ FileDiscovery, FdIntegration

\* A root path that does not exist.
MissingRoot == [exists |-> FALSE, walk |-> <<>>, dir |-> EmptyMap]

\* A root directory that exists: its files in the order WalkDir visits them,
\* and the content of each.
ExistingRoot(walk, dir) ==
    [exists |-> TRUE, walk |-> walk, dir |-> [p \in Range(walk) |-> dir[p]]]

Roots ==
    {MissingRoot}
    \cup UNION {{ExistingRoot(walk, dir) : walk \in ListsOf(DOMAIN dir, MaxRootFiles)} :
                    dir \in Dirs}

\* How the fd command behaves: it is not installed (fd --version cannot be
\* run or fails); or it is, and the search cannot be spawned, exits
\* unsuccessfully, prints bytes that are not UTF-8, or lists the files.
FdBehaviours == {"not_installed", "spawn_error", "exit_failure", "undecodable", "lists"}

EntryPoints == {"cli", "gui", "platform"}

\* Path::exists on the root path.
root_exists(rt) == rt.exists

\* FdIntegration::is_fd_available
is_fd_available(f) == f # "not_installed"

\* FdIntegration::find_files_with_fd: every value it can return. The lines
\* fd prints come in no fixed order.
find_files_with_fd(f, rt) ==
    IF f = "lists" THEN {Ok(listing) : listing \in Orderings(Range(rt.walk))}
    ELSE {Err}

\* WalkDir::new(root_path).into_iter(): an entry per file, or the one error
\* of a root that cannot be read.
WalkDir(rt) ==
    IF rt.exists THEN [i \in 1..Len(rt.walk) |-> Ok(rt.walk[i])] ELSE <<Err>>

\* FdIntegration::fallback_find_files with pattern "*": the entries that
\* are errors are dropped, every file name matches.
fallback_find_files(rt) ==
    LET entries == SelectSeq(WalkDir(rt), LAMBDA entry : entry.ok)
    IN  Ok([i \in 1..Len(entries) |-> entries[i].value])

\* FdIntegration::find_files: every value it can return.
find_files(f, rt) ==
    IF is_fd_available(f) THEN find_files_with_fd(f, rt)
    ELSE {fallback_find_files(rt)}

\* What a request leaves alone.
beyond_discover == <<scanner_vars, call_vars, retry_vars>>

\* The AnalysisResults analyze_directory builds.
AnalysisResults ==
    [total_files |-> total_files, total_groups |-> total_groups,
     duplicate_results |-> results]

\* The CLI (Commands::Analyze) and the GUI command (analyze_directory) test
\* path.exists() first: the CLI prints the error and exits with status 1, the
\* GUI command returns Err("Path does not exist").
ValidatePath ==
    /\ disc_pc = "entry"
    /\ IF root_exists(root)
       THEN /\ disc_pc' = "platform"
            /\ returned' = returned
       ELSE /\ disc_pc' = "returned"
            /\ returned' = <<Err>>
    /\ UNCHANGED <<entry_point, root, fd, finder>>
    /\ UNCHANGED analysis_vars
    /\ UNCHANGED beyond_discover

\* FerretPlatform::analyze_directory calls discover_files, which calls
\* find_files: an error goes up to the caller through the two ? operators;
\* a list of paths is handed to group_files.
DiscoverFiles ==
    /\ disc_pc = "platform"
    /\ finder' = IF is_fd_available(fd) THEN "fd" ELSE "walkdir"
    /\ \E found \in find_files(fd, root) :
           IF found.ok
           THEN /\ files' = found.value
                /\ disk' = [p \in Range(found.value) |-> Present(root.dir[p])]
                /\ pc' = "group"
                /\ disc_pc' = "analysing"
                /\ returned' = returned
           ELSE /\ disc_pc' = "returned"
                /\ returned' = <<Err>>
                /\ UNCHANGED <<files, disk, pc>>
    /\ UNCHANGED <<entry_point, root, fd>>
    /\ UNCHANGED <<env_count, grouper_vars, detector_vars, rerun_vars>>
    /\ UNCHANGED beyond_discover

\* analyze_directory returns Ok(AnalysisResults { .. }), which the entry
\* point prints or returns.
ReturnResults ==
    /\ disc_pc = "analysing"
    /\ pc = "done"
    /\ returned' = <<Ok(AnalysisResults)>>
    /\ disc_pc' = "returned"
    /\ UNCHANGED <<entry_point, root, fd, finder>>
    /\ UNCHANGED analysis_vars
    /\ UNCHANGED beyond_discover

\* An analysis is asked for through one of the entry points. fd lists files
\* only under a root that exists.
InitRequest ==
    /\ entry_point \in EntryPoints
    /\ root \in Roots
    /\ fd \in FdBehaviours
    /\ ~root_exists(root) => fd # "lists"
    /\ disc_pc = IF entry_point = "platform" THEN "platform" ELSE "entry"
    /\ finder = "none"
    /\ returned = <<>>
    /\ NoAnalysis
    /\ NoScanner
    /\ NoCall
    /\ RetryManagerDefault

NextRequest ==
    \/ ValidatePath
    \/ DiscoverFiles
    \/ GroupFile
    \/ CollectGroups
    \/ SkipGroup
    \/ HashGroup
    \/ AddGroup
    \/ Finish
    \/ ReturnResults

SpecRequest == InitRequest /\ [][NextRequest]_vars

\* ================================================================ claims

\* The Vec of groups group_files returned is there.
Grouped == pc \in {"detect", "add", "done"}

\* The places <<group, position>> of path in the returned groups.
PlacesOf(path) ==
    {<<g, j>> \in (1..Len(file_groups)) \X (1..MaxFiles) :
        j <= Len(file_groups[g].variants) /\ file_groups[g].variants[j] = path}

\* C1: group_files partitions its input: every input path is a member of
\* exactly one returned FileGroup, so the group sizes (and total_files of
\* analyze_directory) add up to the number of input paths.
C1_GroupFilesPartitions ==
    Grouped =>
        /\ \A i \in 1..Len(files) : Cardinality(PlacesOf(files[i])) = 1
        /\ total_files = Len(files)

\* C2: two runs of group_files on the same list of paths return the same
\* groups: the same canonical names with the same members in the same order.
C2_GroupingDeterministic ==
    (run = 2 /\ pc = "detect") => Range(file_groups) = Range(first_groups)

\* The first key, in insertion order, among the keys in found.
Earliest(found) ==
    order[CHOOSE i \in 1..Len(order) :
              /\ order[i] \in found
              /\ \A j \in 1..Len(order) : order[j] \in found => i <= j]

\* C3: the path of each iteration is appended to the earliest-created group
\* whose canonical name scores at or above the threshold, and a new group is
\* started only when no existing canonical name does.
C3_FirstMatchWins ==
    [][(pc = "group" /\ idx <= Len(files) /\ idx' = idx + 1) =>
          LET file == files[idx]
              normalized == normalize_filename(file)
              found == Matching(groups, normalized)
          IN  IF found = {}
              THEN groups' = Insert(groups, normalized, FileGroup(normalized, <<file>>))
              ELSE groups' = [groups EXCEPT ![Earliest(found)].variants = Append(@, file)]
      ]_vars

\* Every group, in the HashMap and in the returned Vec, is named after its
\* first member.
C4_NamedAfterFirstMember ==
    /\ \A k \in DOMAIN groups :
           /\ groups[k].variants # <<>>
           /\ groups[k].canonical_name = normalize_filename(groups[k].variants[1])
    /\ \A g \in 1..Len(file_groups) :
           /\ file_groups[g].variants # <<>>
           /\ file_groups[g].canonical_name = normalize_filename(file_groups[g].variants[1])

\* A step that appends to a group keeps its name and its earlier members in
\* place and leaves every other group as it was; no step removes a group.
C4_AppendKeepsGroups ==
    /\ DOMAIN groups \subseteq DOMAIN groups'
    /\ \A k \in DOMAIN groups :
           Len(groups'[k].variants) > Len(groups[k].variants) =>
               /\ groups'[k].canonical_name = groups[k].canonical_name
               /\ SubSeq(groups'[k].variants, 1, Len(groups[k].variants)) = groups[k].variants
               /\ \A other \in DOMAIN groups' \ {k} :
                      other \in DOMAIN groups /\ groups'[other] = groups[other]

\* C4: in every state while group_files runs and in its result, each group's
\* canonical_name is normalize_filename of the first member of its variants;
\* appending a member never changes a canonical_name, never reorders the
\* members already there and never merges two groups.
C4_CanonicalNameFromFirstMember ==
    []C4_NamedAfterFirstMember /\ [][C4_AppendKeepsGroups]_vars

\* A group holds a second member whose own normalized name is not the group's.
C4_Witness ==
    \E k \in DOMAIN groups :
        /\ Len(groups[k].variants) >= 2
        /\ normalize_filename(groups[k].variants[2]) # groups[k].canonical_name

report == <<"r", "e", "p", "o", "r", "t">>
ReportVariants == {report_v1_docx, report_v2_docx, report_final_docx}

\* C5: report_v1.docx, report_v2.docx and report_final.docx each normalise to
\* "report" and, in any enumeration order, land in one FileGroup whose
\* canonical_name is "report".
C5_ReportVariantsOneGroup ==
    /\ \A path \in ReportVariants : normalize_filename(path) = report
    /\ (Grouped /\ Range(files) = ReportVariants) =>
           /\ Len(file_groups) = 1
           /\ file_groups[1].canonical_name = report
           /\ Range(file_groups[1].variants) = ReportVariants
           /\ Len(file_groups[1].variants) = Cardinality(ReportVariants)

\* The three were grouped, report_final.docx enumerated first.
C5_Witness ==
    /\ pc = "done"
    /\ Range(files) = ReportVariants
    /\ files[1] = report_final_docx

\* Every duplicate set stored in the results, as <<group index, set index>>.
StoredSets ==
    {<<g, k>> \in (1..Len(results.duplicate_groups)) \X (1..MaxFiles) :
        k <= Len(results.duplicate_groups[g].duplicate_sets)}

SetAt(place) == results.duplicate_groups[place[1]].duplicate_sets[place[2]]

\* The sum of function f over the finite set S.
RECURSIVE SumOver(_, _)
SumOver(S, f) ==
    IF S = {} THEN 0
    ELSE LET x == CHOOSE y \in S : TRUE IN f[x] + SumOver(S \ {x}, f)

LaterMembers ==
    {<<g, k, i>> \in (1..Len(results.duplicate_groups)) \X (1..MaxFiles) \X (2..MaxFiles) :
        /\ <<g, k>> \in StoredSets
        /\ i <= Len(SetAt(<<g, k>>))}

MemberAt(m) == SetAt(<<m[1], m[2]>>)[m[3]]

\* The size of the content that hash_file read from path in this run.
HashedSize(path) == SizeOf(hashed[path][2])

\* C7 as stated: space_wasted is the sum of the sizes of every member except
\* the first of each stored duplicate set (the size of the content that made
\* it a member), also when its metadata cannot be read at aggregation time.
C7_SpaceWastedIsSizeOfLaterMembers ==
    results.space_wasted = SumOver(LaterMembers, [m \in LaterMembers |-> HashedSize(MemberAt(m))])

\* What the directory held for path when its group was added to the results:
\* nothing for a path that was gone by then.
SizeWhenAdded(m) ==
    LET then == seen[m[1]][MemberAt(m)]
    IN  IF then.state = "removed" THEN 0 ELSE SizeOf(then.content)

\* C7 as amended: space_wasted is the sum, over every member except the first
\* of each stored set, of the size the file had on disk when its group was
\* added; a member that was gone by then adds nothing.
C7_SpaceWastedIsSizeWhenAdded ==
    results.space_wasted = SumOver(LaterMembers, [m \in LaterMembers |-> SizeWhenAdded(m)])

\* A later member of a stored set was gone when its group was added, and
\* another one was counted.
C7_Witness ==
    /\ pc = "done"
    /\ \E m \in LaterMembers : seen[m[1]][MemberAt(m)].state = "removed"
    /\ results.space_wasted > 0

\* Every duplicate set of the results, as a set of paths.
ReportedSets == {Range(SetAt(place)) : place \in StoredSets}

\* C8: for a.txt and b.txt of one content and c.txt of another, the pipeline
\* reports exactly one duplicate set {a.txt, b.txt}, total_duplicates is 1 and
\* c.txt is in no set.
C8_ScenarioOne ==
    (pc = "done" /\ env_count = 0 /\ Range(files) = {a_txt, b_txt, c_txt}) =>
        /\ ReportedSets = {{a_txt, b_txt}}
        /\ results.total_duplicates = 1
        /\ \A set \in ReportedSets : c_txt \notin set

\* C9: for test1.txt and test2.txt of one content and different.txt of
\* another, analyze_directory counts both identical files: total_duplicates is
\* at least 2 and space_wasted is above 0.
C9_BothIdenticalFilesCounted ==
    (pc = "done" /\ env_count = 0
        /\ Range(files) = {test1_txt, test2_txt, different_txt}) =>
        /\ results.total_duplicates >= 2
        /\ results.space_wasted > 0

\* The groups detect_duplicates has hashed so far.
HashedGroups == {g \in 1..Len(file_groups) : g < gi \/ (g = gi /\ pc = "add")}

\* The duplicate sets found in group g of file_groups: those stored under its
\* name, and those waiting to be stored.
SetsOfGroup(g) ==
    {SetAt(place) : place \in {q \in StoredSets :
        results.duplicate_groups[q[1]].base_name = file_groups[g].canonical_name}}
    \cup (IF pc = "add" /\ g = gi THEN Range(pending) ELSE {})

\* C10: every reported duplicate set has at least 2 members, all of one
\* content hash and of one FileGroup; two members of a group with the same
\* hash are in the same set; no DuplicateGroup has an empty list of sets; a
\* group of one member contributes nothing.
C10_DuplicateSetsValid ==
    /\ \A d \in 1..Len(results.duplicate_groups) :
           /\ results.duplicate_groups[d].duplicate_sets # <<>>
           /\ \E g \in HashedGroups :
                  file_groups[g].canonical_name = results.duplicate_groups[d].base_name
    /\ \A g \in HashedGroups :
           /\ \A set \in SetsOfGroup(g) :
                  /\ Len(set) >= 2
                  /\ Range(set) \subseteq Range(file_groups[g].variants)
                  /\ \A p, q \in Range(set) :
                         /\ p \in DOMAIN hashed
                         /\ q \in DOMAIN hashed
                         /\ hashed[p] = hashed[q]
           /\ \A p, q \in Range(file_groups[g].variants) \cap DOMAIN hashed :
                  (p # q /\ hashed[p] = hashed[q]) =>
                      \E set \in SetsOfGroup(g) : {p, q} \subseteq Range(set)
           /\ Len(file_groups[g].variants) < 2 => SetsOfGroup(g) = {}

\* A group of three was hashed: two of its members form a set, the third has
\* another content and is in none; a group of one member stands beside it.
C10_Witness ==
    /\ pc = "done"
    /\ \E g \in 1..Len(file_groups) :
           /\ Len(file_groups[g].variants) = 3
           /\ \E set \in SetsOfGroup(g) : Len(set) = 2
    /\ \E g \in 1..Len(file_groups) : Len(file_groups[g].variants) = 1

\* The members of the group that are missing or cannot be opened.
Failing(dsk, group) ==
    {p \in Range(group.variants) : dsk[p].state \in {"removed", "denied"}}

\* The group as it would be had its failing members not been in the input.
WithoutFailing(dsk, group) ==
    FileGroup(group.canonical_name,
              SelectSeq(group.variants, LAMBDA p : p \notin Failing(dsk, group)))

\* What find_exact_duplicates_in_group returned in a step that hashed a group.
FoundInStep == IF pc' = "add" THEN pending' ELSE <<>>

\* A step that hashes a group returns; no failing member is in a set it found,
\* and the sets are those of the group without its failing members.
C11_HashStepAbsorbs ==
    (pc = "detect" /\ gi <= Len(file_groups) /\ is_potential_duplicate(file_groups[gi])
        /\ (pc' = "add" \/ gi' = gi + 1)) =>
        LET group == file_groups[gi]
        IN  /\ pc' \in {"detect", "add"}
            /\ \A i \in 1..Len(FoundInStep) :
                   Range(FoundInStep[i]) \cap Failing(disk, group) = {}
            /\ FoundInStep \in
                   find_exact_duplicates_in_group(disk, WithoutFailing(disk, group))
            /\ UNCHANGED <<file_groups, results>>

\* C11: a member of a group that is missing or cannot be opened when the group
\* is hashed is absorbed: detect_duplicates goes on and returns, the member is
\* in no duplicate set, and the sets found are those the readable members
\* form without it.
C11_PerFileFailuresAbsorbed ==
    /\ [][C11_HashStepAbsorbs]_vars
    /\ [](\A g \in HashedGroups : \A set \in SetsOfGroup(g) :
              Range(set) \subseteq DOMAIN hashed)

\* detect_duplicates returned; one member of a hashed group of three failed
\* (it has no digest) and the two others were still reported as a set.
C11_Witness ==
    /\ pc = "done"
    /\ \E g \in HashedGroups :
           /\ Len(file_groups[g].variants) = 3
           /\ \E p \in Range(file_groups[g].variants) : p \notin DOMAIN hashed
           /\ \E set \in SetsOfGroup(g) : Len(set) = 2

\* shingle_similarity has returned r for the sets arg1 and arg2.
JaccardReturned == call = "shingle_similarity" /\ out # <<>>

\* C17: shingle_similarity returns |S1 \cap S2| / |S1 \cup S2|, between 0 and
\* 1; it returns 1 for a non-empty set and itself, and 0 when either set is
\* empty.
C17_JaccardBounds ==
    JaccardReturned =>
        LET r == out[1]
        IN  /\ f64_ge(r, Zero)
            /\ f64_ge(One, r)
            /\ (arg1 \cup arg2 # {}) =>
                   r.num * Cardinality(arg1 \cup arg2) = Cardinality(arg1 \cap arg2) * r.den
            /\ (arg1 = arg2 /\ arg1 # {}) => f64_eq(r, One)
            /\ (arg1 = {} \/ arg2 = {}) => f64_eq(r, Zero)

\* Two overlapping sets, neither inside the other, were compared.
C17_Witness ==
    /\ JaccardReturned
    /\ arg1 \cap arg2 # {}
    /\ arg1 \ arg2 # {}
    /\ arg2 \ arg1 # {}

\* smith_waterman_rolling has returned for the strings arg1 and arg2.
AlignmentReturned == call = "smith_waterman_rolling" /\ out # <<>>

C19_IdenticalScoresOne ==
    (AlignmentReturned /\ arg1 = arg2 /\ arg1 # <<>>) =>
        /\ raw_score(arg1, arg2) = MATCH_SCORE * str_len(arg1)
        /\ f64_eq(out[1], One)

\* A string of three characters, one of them of two bytes, was aligned with
\* itself.
C19_Witness ==
    /\ AlignmentReturned
    /\ arg1 = arg2
    /\ Len(arg1) = 3
    /\ str_len(arg1) = 4

\* The paths of sim_files that can be opened and read as text.
Readable == {path \in Range(sim_files) :
                /\ opens(root_directory, path)
                /\ reads_as_text(root_directory[path].content)}

\* The pairs <<i, j>> of loaded files the parallel loop has gone through.
Compared == {pair \in (1..Len(file_contents)) \X (1..Len(file_contents)) :
                pair[1] < pair[2] /\ pair[2] < next_pair[pair[1]]}

\* C12: one file that cannot be read as text, or one directory entry that
\* cannot be read, stops nothing: the scanner does not panic, and once
\* calculate_similarity is through, every readable file of relevant size was
\* loaded and every pair of loaded files compared.
C12_NoFileFailureSuppressesOthers ==
    /\ scan_pc # "panicked"
    /\ scan_pc = "done" =>
           /\ \A path \in Readable :
                  is_relevant_size(root_directory[path].content) =>
                      \E k \in 1..Len(file_contents) : file_contents[k].path = path
           /\ \A i, j \in 1..Len(file_contents) : i < j => <<i, j>> \in Compared

\* The keys of the result store.
StoredKeys == DOMAIN similarity_scores

\* C13: the result store never holds an unordered pair under both of its
\* keys, and no key is inserted a second time.
C13_PairStoredOnce ==
    /\ \A key \in StoredKeys :
           key[1] # key[2] => <<key[2], key[1]>> \notin StoredKeys
    /\ \A key \in DOMAIN inserts : inserts[key] <= 1

\* The Jaccard similarity of loaded files i and j is at least 0.7: at least
\* 7 in 10 of the shingles of either are shingles of both.
JaccardAtLeastThreshold(i, j) ==
    LET shingles1 == shingle_file(file_contents[i].contents)
        shingles2 == shingle_file(file_contents[j].contents)
    IN  /\ shingles1 # {}
        /\ shingles2 # {}
        /\ 10 * Cardinality(shingles1 \cap shingles2) >= 7 * Cardinality(shingles1 \cup shingles2)

\* Loaded files i and j are both known duplicates.
BothKnown(i, j) ==
    /\ file_contents[i].path \in sim_duplicates
    /\ file_contents[j].path \in sim_duplicates

KeyOf(i, j) == <<file_contents[i].path, file_contents[j].path>>

\* C14: a compared pair of loaded files that are not both known duplicates was
\* aligned, and has a score in the store, exactly if its Jaccard similarity is
\* at least 0.7; below it (an empty shingle set included) the pair is not in
\* the store.
C14_PreFilterGate ==
    \A pair \in Compared :
        LET i == pair[1]
            j == pair[2]
        IN  ~BothKnown(i, j) =>
                /\ pair \in tested
                /\ pair \in aligned <=> JaccardAtLeastThreshold(i, j)
                /\ KeyOf(i, j) \in StoredKeys <=> JaccardAtLeastThreshold(i, j)
                /\ JaccardAtLeastThreshold(i, j) =>
                       similarity_scores[KeyOf(i, j)] =
                           smith_waterman_rolling(content_chars(file_contents[i].contents),
                                                  content_chars(file_contents[j].contents))

\* calculate_similarity is through; one pair passed the gate and was aligned,
\* another shares some but too few of its shingles and was not.
C14_Witness ==
    /\ scan_pc = "done"
    /\ \E pair \in Compared : ~BothKnown(pair[1], pair[2]) /\ pair \in aligned
    /\ \E pair \in Compared :
           /\ ~BothKnown(pair[1], pair[2])
           /\ pair \notin aligned
           /\ shingle_file(file_contents[pair[1]].contents)
                  \cap shingle_file(file_contents[pair[2]].contents) # {}

\* C15: a compared pair of loaded files that are both known duplicates has
\* the score 1.0 in the store, and neither the Jaccard test nor the alignment
\* was run on it; a pair with one known duplicate went through the Jaccard
\* test.
C15_KnownDuplicateShortCircuit ==
    \A pair \in Compared :
        LET i == pair[1]
            j == pair[2]
        IN  /\ BothKnown(i, j) =>
                   /\ KeyOf(i, j) \in StoredKeys
                   /\ f64_eq(similarity_scores[KeyOf(i, j)], One)
                   /\ pair \notin tested
                   /\ pair \notin aligned
            /\ ~BothKnown(i, j) => pair \in tested

\* calculate_similarity is through; two known duplicates of different content
\* have the score 1.0, and a pair with one known duplicate, of one content,
\* was tested.
C15_Witness ==
    /\ scan_pc = "done"
    /\ \E pair \in Compared :
           /\ BothKnown(pair[1], pair[2])
           /\ file_contents[pair[1]].contents # file_contents[pair[2]].contents
    /\ \E pair \in Compared :
           /\ ~BothKnown(pair[1], pair[2])
           /\ KeyOf(pair[1], pair[2])[1] \in sim_duplicates
           /\ pair \in tested

\* The file is larger than the size ceiling.
Oversized(path) == content_len(root_directory[path].content) > MAX_FILE_SIZE

\* The file is exactly as large as the size ceiling.
AtCeiling(path) == content_len(root_directory[path].content) = MAX_FILE_SIZE

\* The paths load_files returned.
LoadedPaths == {file_contents[k].path : k \in 1..Len(file_contents)}

\* An oversized file is not loaded and is in no key of the store; a file at
\* the ceiling that opens is loaded, and compared with every other loaded file
\* by the time calculate_similarity is through.
C16_CeilingAtLoad ==
    /\ \A path \in LoadedPaths : ~Oversized(path)
    /\ \A key \in StoredKeys : ~Oversized(key[1]) /\ ~Oversized(key[2])
    /\ scan_pc \in {"scoring", "done"} =>
           \A path \in Range(sim_files) :
               (AtCeiling(path) /\ opens(root_directory, path)) => path \in LoadedPaths
    /\ scan_pc = "done" =>
           \A i, j \in 1..Len(file_contents) : i < j => <<i, j>> \in Compared

\* detect_duplicates hashes oversized files like the others: two oversized
\* files of one content end up in one duplicate group.
C16_OversizedStillHashed ==
    (scan_pc = "new" /\ scan_pc' = "detected") =>
        \A p, q \in DOMAIN root_directory :
            (/\ p # q
             /\ Oversized(p)
             /\ opens(root_directory, p)
             /\ opens(root_directory, q)
             /\ root_directory[p].content = root_directory[q].content) =>
                /\ {p, q} \subseteq duplicate_files'
                /\ \E g \in 1..Len(duplicate_groups') : {p, q} \subseteq Range(duplicate_groups'[g])

\* C16: a file larger than 102400 bytes is dropped at load time and is in no
\* pair of the result store, a file of exactly 102400 bytes is loaded and
\* scored, and an oversized file is still hashed and can be a member of a
\* duplicate group.
C16_SizeCeiling ==
    /\ []C16_CeilingAtLoad
    /\ [][C16_OversizedStillHashed]_vars

\* An oversized file is in a duplicate group and was handed to
\* calculate_similarity, which dropped it; two files at the ceiling were
\* loaded and their pair has a score.
C16_Witness ==
    /\ scan_pc = "done"
    /\ \E path \in Range(sim_files) :
           /\ Oversized(path)
           /\ path \in duplicate_files
           /\ \E g \in 1..Len(duplicate_groups) : path \in Range(duplicate_groups[g])
           /\ path \notin LoadedPaths
    /\ \E key \in StoredKeys : AtCeiling(key[1]) /\ AtCeiling(key[2]) /\ key[1] # key[2]

\* No queued file has more than max_retries retries counted, and the
\* processor was called at most max_retries times on any queued file.
C20_RetriesBounded ==
    /\ \A k \in 1..Len(locked_files) : locked_files[k].retry_count <= max_retries
    /\ \A id \in 1..Len(invocations) : invocations[id] <= max_retries

\* A call of retry_locked_files reports every file that had max_retries
\* retries counted as Failed, "Max retries exceeded", and does not queue it
\* again.
C20_ExhaustedReported ==
    (added' = added /\ retry_vars' # retry_vars) =>
        \A k \in 1..Len(locked_files) :
            locked_files[k].retry_count = max_retries =>
                /\ \E r \in 1..Len(retry_results') :
                       retry_results'[r] =
                           Failed(locked_files[k].path,
                                  max_retries_exceeded(locked_files[k].error))
                /\ \A q \in 1..Len(locked_files') :
                       locked_files'[q].first_seen # locked_files[k].first_seen

\* C20: every queued file always has retry_count <= max_retries (3), the
\* processor is called at most max_retries times on any one queued file, and a
\* file whose retry_count has reached max_retries is reported by the next
\* retry_locked_files call as Failed, "Max retries exceeded", and is not
\* queued again.
C20_RetryBounded ==
    /\ []C20_RetriesBounded
    /\ [][C20_ExhaustedReported]_vars

\* The one file queued, on which the processor was called three times, each
\* time with a lock error, has just been reported as a permanent failure and
\* is off the queue.
C20_Witness ==
    /\ added = 1
    /\ \E id \in 1..Len(invocations) :
           /\ invocations[id] = max_retries
           /\ \A k \in 1..Len(locked_files) : locked_files[k].first_seen # id
    /\ \E r \in 1..Len(retry_results) :
           /\ retry_results[r].result = "Failed"
           /\ retry_results[r].error = max_retries_exceeded(sharing_violation)

\* A file that was locked before the group it belongs to was hashed and has
\* stayed locked: hash_file was tried on it and failed.
LockedThroughout(path) ==
    /\ disk[path].state = "denied"
    /\ path \notin DOMAIN hashed
    /\ \E g \in 1..Len(file_groups) :
           /\ g < gi
           /\ is_potential_duplicate(file_groups[g])
           /\ path \in Range(file_groups[g].variants)

\* The file is a member of no stored duplicate set, so that it adds nothing
\* to total_duplicates or space_wasted.
InNoDuplicateSet(path) ==
    \A g \in 1..Len(results.duplicate_groups) :
        \A s \in 1..Len(results.duplicate_groups[g].duplicate_sets) :
            path \notin Range(results.duplicate_groups[g].duplicate_sets[s])

\* The retry manager of the platform has reported the file as Failed.
InReportedFailures(path) ==
    \E r \in 1..Len(retry_results) :
        retry_results[r].result = "Failed" /\ retry_results[r].path = path

\* C21 (scenario 5): when analyze_directory has completed, a file that stayed
\* locked while its group was hashed is in no duplicate set, adds nothing to
\* total_duplicates or space_wasted, and is in the reported failures.
C21_LockedFileReported ==
    pc = "done" =>
        \A path \in DOMAIN disk :
            LockedThroughout(path) =>
                InNoDuplicateSet(path) /\ InReportedFailures(path)

\* The part of scenario 5 the run does deliver: it completes, and the locked
\* file is in no duplicate set.
C21_LockedFileExcluded ==
    pc = "done" =>
        \A path \in DOMAIN disk : LockedThroughout(path) => InNoDuplicateSet(path)

\* The request has come back to its caller with an error.
ReturnedError == returned # <<>> /\ ~returned[1].ok

\* C22: whenever fd fails on a root that exists (it is not installed, or its
\* search cannot be run, exits unsuccessfully or prints undecodable bytes),
\* find_files returns the file list of the built-in walker and no error.
C22_FallsBackSilently ==
    (root_exists(root) /\ fd # "lists" /\ finder # "none") =>
        /\ ~ReturnedError
        /\ files = fallback_find_files(root).value

\* The half of C22 the code delivers: with fd not installed, the walker's
\* list is what find_files returns.
C22_FallsBackWhenNotInstalled ==
    (root_exists(root) /\ fd = "not_installed" /\ finder # "none") =>
        /\ finder = "walkdir"
        /\ ~ReturnedError
        /\ files = fallback_find_files(root).value

\* C23: an analysis asked for on a root path that does not exist runs no
\* enumeration, no grouping and no hashing, and what it returns is an error.
C23_MissingRootIsFatal ==
    ~root_exists(root) =>
        /\ finder = "none"
        /\ pc = "none"
        /\ returned # <<>> => ReturnedError

\* The part of C23 the code delivers: the CLI and the GUI command return an
\* error on a missing root before any work.
C23_MissingRootRejectedAtEntry ==
    (~root_exists(root) /\ entry_point \in {"cli", "gui"}) =>
        /\ finder = "none"
        /\ pc = "none"
        /\ disc_pc = "returned" => ReturnedError

\* Every window of k words in a row of the words.
AllWindows(words, k) ==
    IF Len(words) < k THEN {}
    ELSE {join(SubSeq(words, i, i + k - 1)) : i \in 1..(Len(words) - k + 1)}

\* C24: for a content of n words and k = clamp(content length / 50, 2, 10),
\* shingle_file returns the set of all n - k + 1 windows of k words in a row
\* when n >= k (one shingle for exactly k words; the last k words are always
\* one), and the empty set when n < k.
C24_ShingleFileAllWindows ==
    (call = "shingle_file" /\ out # <<>>) =>
        out[1] = AllWindows(content_words(arg1),
                            clamp(content_len(arg1) \div 50, 2, 10))

\* What shingle_file does return: the windows but the last one, and nothing
\* for fewer than k words.
C24_ShingleFileButLastWindow ==
    (call = "shingle_file" /\ out # <<>>) =>
        LET words == content_words(arg1)
            k == clamp(content_len(arg1) \div 50, 2, 10)
        IN  /\ Len(words) < k => out[1] = {}
            /\ Len(words) >= k =>
                   /\ Cardinality(out[1]) = Len(words) - k
                   /\ out[1] = AllWindows(words, k) \ {join(SubSeq(words, Len(words) - k + 1, Len(words)))}

\* Row i of the full matrix, built from the row above it in a row of its
\* own: column 0 is 0, column j the largest of 0, the diagonal cell plus
\* match or mismatch, and the cells above and to the left plus the gap.
RECURSIVE FullRow(_, _, _, _, _)
FullRow(seq1, seq2, i, above, row) ==
    IF Len(row) > str_len(seq2) THEN row
    ELSE LET j == Len(row)
             diagonal == above[j] + match_mismatch(seq1, seq2, i, j)
             up == above[j + 1] + GAP_PENALTY
             left == row[j] + GAP_PENALTY
         IN  FullRow(seq1, seq2, i, above, Append(row, Max2(0, Max2(diagonal, Max2(up, left)))))

\* The full (len1 + 1) x (len2 + 1) matrix from row i on, every row kept.
RECURSIVE FullMatrixFrom(_, _, _, _)
FullMatrixFrom(seq1, seq2, i, above) ==
    IF i > str_len(seq1) THEN <<>>
    ELSE LET row == FullRow(seq1, seq2, i, above, <<0>>)
         IN  <<row>> \o FullMatrixFrom(seq1, seq2, i + 1, row)

FullMatrix(seq1, seq2) ==
    LET zeros == [j \in 1..(str_len(seq2) + 1) |-> 0]
    IN  <<zeros>> \o FullMatrixFrom(seq1, seq2, 1, zeros)

\* The largest cell of the full matrix.
FullMatrixMax(seq1, seq2) ==
    LET matrix == FullMatrix(seq1, seq2)
    IN  RowMax([i \in 1..Len(matrix) |-> RowMax(matrix[i])])

\* C25: the maximum smith_waterman_rolling tracks over its two swapped rows
\* is the largest cell of the full (len1 + 1) x (len2 + 1) matrix with match
\* +3, mismatch -1, gap -2, cells clamped at 0, first row and column 0.
C25_RollingRefinesFullMatrix ==
    AlignmentReturned =>
        /\ raw_score(arg1, arg2) = FullMatrixMax(arg1, arg2)
        /\ out[1] = f64_div(FullMatrixMax(arg1, arg2),
                            Max2(str_len(arg1), str_len(arg2)) * MATCH_SCORE)

\* Two strings of three rows and more were aligned, so that the row of the
\* first iteration, with a cell above 0 in it, was filled again in the third,
\* and the largest cell lies in a later row than the second.
C25_Witness ==
    /\ AlignmentReturned
    /\ str_len(arg1) >= 3
    /\ str_len(arg2) >= 3
    /\ arg1 # arg2
    /\ RowMax(FullMatrix(arg1, arg2)[2]) > 0
    /\ RowMax(FullMatrix(arg1, arg2)[3]) < FullMatrixMax(arg1, arg2)

\* The two strings get a score above 1.0.
ExceedsOne(seq1, seq2) ==
    LET score == smith_waterman_rolling(seq1, seq2)
    IN  ~is_nan(score) /\ score.num > score.den

\* C26 as it stands: there are inputs, of repetitive content, for which
\* smith_waterman_rolling returns more than 1.0. Looked for, once a call has
\* returned, among all the strings the function is called with.
C26_ScoreCanExceedOne ==
    AlignmentReturned =>
        \E seq1, seq2 \in Strings(MaxStrLen) : ExceedsOne(seq1, seq2)

\* C26, amended: the score is not clamped, and never above 1.0: max_score is
\* at most MATCH_SCORE times the shorter length, so that the value returned
\* lies between 0.0 and 1.0, or is NaN for two empty strings.
C26_ScoreAtMostOne ==
    AlignmentReturned =>
        /\ raw_score(arg1, arg2) <= MATCH_SCORE * str_len(arg1)
        /\ raw_score(arg1, arg2) <= MATCH_SCORE * str_len(arg2)
        /\ is_nan(out[1]) <=> (arg1 = <<>> /\ arg2 = <<>>)
        /\ ~is_nan(out[1]) => f64_ge(One, out[1]) /\ f64_ge(out[1], Zero)

\* Two strings of one letter repeated, of different lengths, were aligned:
\* the score is 2/3.
C26_Witness ==
    /\ AlignmentReturned
    /\ arg1 = <<"a", "a", "a">>
    /\ arg2 = <<"a", "a">>
    /\ out[1] = f64_div(2, 3)

\* C29: smith_waterman_rolling returns 0 for two non-empty strings with no
\* character in common, strings with characters of more than one byte
\* included, and every cell of the matrix is >= 0.
C29_DisjointScoresZero ==
    (AlignmentReturned /\ arg1 # <<>> /\ arg2 # <<>> /\ Range(arg1) \cap Range(arg2) = {}) =>
        /\ f64_eq(out[1], Zero)
        /\ \A i \in 1..(str_len(arg1) + 1) : \A j \in 1..(str_len(arg2) + 1) :
               FullMatrix(arg1, arg2)[i][j] >= 0

\* What does hold of C29: the cells are never below 0, and the score is 0
\* when the strings have no character in common and one of them has only
\* characters of one byte.
C29_DisjointScoresZeroOneByte ==
    AlignmentReturned =>
        /\ \A i \in 1..(str_len(arg1) + 1) : \A j \in 1..(str_len(arg2) + 1) :
               FullMatrix(arg1, arg2)[i][j] >= 0
        /\ ( /\ arg1 # <<>> /\ arg2 # <<>>
             /\ Range(arg1) \cap Range(arg2) = {}
             /\ (str_len(arg1) = Len(arg1) \/ str_len(arg2) = Len(arg2)) )
           => f64_eq(out[1], Zero)

\* The place of a path in the enumeration.
EnumeratedAt(path) == CHOOSE i \in 1..Len(files) : files[i] = path

\* The members of the sequence come in the order they were enumerated in.
InEnumerationOrder(members) ==
    \A a, b \in 1..Len(members) : a < b => EnumeratedAt(members[a]) < EnumeratedAt(members[b])

\* The duplicate sets found so far: those stored and those about to be.
FoundSets == {SetAt(place) : place \in StoredSets} \cup Range(pending)

\* C27: the variants of every FileGroup, and the members of every duplicate
\* set, come in enumeration order, so that the first member of a set, the one
\* left out of total_duplicates and space_wasted, is the member enumerated
\* first.
C27_OriginalIsEarliestEnumerated ==
    /\ \A k \in DOMAIN groups : InEnumerationOrder(groups[k].variants)
    /\ \A g \in 1..Len(file_groups) : InEnumerationOrder(file_groups[g].variants)
    /\ \A set \in FoundSets :
           /\ InEnumerationOrder(set)
           /\ \A m \in 2..Len(set) : EnumeratedAt(set[1]) < EnumeratedAt(set[m])

\* The run is over with a duplicate set stored whose first member was not
\* enumerated first, and whose second member was not enumerated right after
\* it.
C27_Witness ==
    /\ pc = "done"
    /\ results.total_duplicates >= 1
    /\ \E set \in FoundSets :
           /\ Len(set) = 2
           /\ EnumeratedAt(set[1]) > 1
           /\ EnumeratedAt(set[2]) > EnumeratedAt(set[1]) + 1

\* The queued entries that stem from the add_locked_file call id.
QueuedAs(queue, id) == {k \in 1..Len(queue) : queue[k].first_seen = id}

\* Nothing is lost and nothing comes twice: an entry is on the queue once and
\* not yet reported, or off the queue and reported once.
C28_NothingLost ==
    \A id \in 1..added :
        \/ Cardinality(QueuedAs(locked_files, id)) = 1 /\ reports[id] = 0
        \/ QueuedAs(locked_files, id) = {} /\ reports[id] = 1

\* With no add_locked_file in between, the queue is empty after at most
\* max_retries + 1 calls of retry_locked_files.
C28_Drains ==
    /\ cycles <= max_retries + 1
    /\ cycles = max_retries + 1 => locked_files = <<>>

\* One call of retry_locked_files: each file queued at its start ends as one
\* of a Success result, a Failed result, or queued again with one more retry
\* counted, and the results returned are those of the files that left the
\* queue; an error of the processor that is no lock error gives Failed at
\* once, and the file is not queued again.
C28_EachFileSettled ==
    (added' = added /\ locked_files # <<>>) =>
        /\ Len(retry_results') + Len(locked_files') = Len(locked_files)
        /\ \A k \in 1..Len(locked_files) :
               LET id == locked_files[k].first_seen
                   again == QueuedAs(locked_files', id)
               IN  /\ \/ /\ again = {}
                         /\ reports'[id] = reports[id] + 1
                         /\ \E r \in 1..Len(retry_results') :
                                /\ retry_results'[r].path = locked_files[k].path
                                /\ retry_results'[r].result \in {"Success", "Failed"}
                      \/ /\ Cardinality(again) = 1
                         /\ reports'[id] = reports[id]
                         /\ \A q \in again :
                                locked_files'[q].retry_count = locked_files[k].retry_count + 1
                   /\ (outcomes'[k] = "other_error" /\ locked_files[k].retry_count < max_retries) =>
                          /\ again = {}
                          /\ \E r \in 1..Len(retry_results') :
                                 /\ retry_results'[r].path = locked_files[k].path
                                 /\ retry_results'[r].result = "Failed"
                                 /\ retry_results'[r].error # max_retries_exceeded(locked_files[k].error)

\* C28: the retry queue drains and loses nothing: each call settles every
\* file queued at its start as Success, Failed or queued again with one more
\* retry; an error that is no lock error is Failed at once; and without a new
\* add_locked_file the queue is empty after at most max_retries + 1 calls,
\* every queued file reported exactly once over the results returned.
C28_QueueDrains ==
    /\ []C28_NothingLost
    /\ []C28_Drains
    /\ [][C28_EachFileSettled]_vars

\* Two files were queued; max_retries + 1 calls later the queue is empty, one
\* file reported as a failure of the processor, the other for its retries
\* having run out, each once.
C28_Witness ==
    /\ added = 2
    /\ cycles = max_retries + 1
    /\ locked_files = <<>>
    /\ \A id \in 1..added : reports[id] = 1
    /\ invocations[1] = 1
    /\ invocations[2] = max_retries
    /\ Len(retry_results) = 1

\* run_all_analyses has returned.
AnalysesRun == entered = "run_all_analyses" /\ scan_pc = "done"

\* The files under the root.
FilesUnderRoot == {path \in DOMAIN root_directory : is_file(root_directory, path)}

\* FileScanner::total_files_count
total_files_count == Cardinality(unique_files) + Cardinality(duplicate_files)

\* C30: after run_all_analyses, duplicate_files is the union of the members
\* of duplicate_groups, unique_files and duplicate_files share no path,
\* total_files_count is the number of files under the root, the list handed
\* to calculate_similarity holds no member of duplicate_files, and no pair
\* was stored through the short-circuit for known duplicates.
C30_UniqueAndDuplicateDisjoint ==
    AnalysesRun =>
        /\ duplicate_files =
               UNION {Range(duplicate_groups[g]) : g \in 1..Len(duplicate_groups)}
        /\ unique_files \cap duplicate_files = {}
        /\ total_files_count = Cardinality(FilesUnderRoot)
        /\ Range(sim_files) = unique_files
        /\ Range(sim_files) \cap duplicate_files = {}
        /\ sim_duplicates = duplicate_files
        /\ \A i, j \in 1..Len(file_contents) : ~BothKnown(i, j)
        /\ \A key \in StoredKeys : <<key[1], key[2]>> \in
               {<<file_contents[p[1]].path, file_contents[p[2]].path>> : p \in aligned}

\* run_all_analyses has returned on a directory with two identical files and
\* a third that is like them: one duplicate group, one unique file, and one
\* pair was compared.
C30_Witness ==
    /\ AnalysesRun
    /\ Len(duplicate_groups) = 1
    /\ Cardinality(duplicate_files) = 2
    /\ Cardinality(unique_files) >= 1
    /\ total_files_count >= 3

====
